---------------------------- MODULE Spec2Model ----------------------------
(***************************************************************************)
(* The request dispatcher and resource engine of the file server           *)
(* (src/src/server.rs): Server::call / Server::handle and the handlers     *)
(* they select, over an abstract POSIX filesystem.                         *)
(*                                                                         *)
(* Strings of the program are sequences of atoms.  An atom is a piece of   *)
(* text that the program never looks inside: "/" and "." are the two       *)
(* separator characters, "%2F", "%2E" and "%FF" are percent escapes of a   *)
(* raw request path, every other atom is a run of ordinary characters.     *)
(* A file name is a non-empty sequence of atoms without "/"; a filesystem  *)
(* path is a sequence of names, read from the filesystem root "/".         *)
(***************************************************************************)
EXTENDS Naturals, Sequences, FiniteSets, TLC

\* cfg   the configuration (Args), fixed for the life of the process
\* fs    the filesystem
\* pc    "idle", or "done" when call has answered a request whose
\*       response the HTTP runtime has not taken yet
\* req   the request answered last, res its response, log the access-log
\*       records call emitted for it, fs0 the filesystem it started from
\* fs1   the filesystem when handle checked the symlink policy
\* nreq  the number of requests answered so far
VARIABLES cfg, fs, pc, req, res, log, fs0, fs1, nreq

vars == <<cfg, fs, pc, req, res, log, fs0, fs1, nreq>>

\* Bounds of the model.
MaxReqs == 2
\* The latest reading of the clock, in ticks.
MaxTime == 4
MaxSize == 1
Fuel == 3

-----------------------------------------------------------------------------
(* Text helpers                                                            *)

Front(s) == SubSeq(s, 1, Len(s) - 1)

Last(s) == s[Len(s)]

IsPrefix(p, s) == Len(p) <= Len(s) /\ SubSeq(s, 1, Len(p)) = p

DotDot == <<".", ".">>

\* str::trim_matches('/')
RECURSIVE TrimStart(_)
TrimStart(s) == IF s # <<>> /\ Head(s) = "/" THEN TrimStart(Tail(s)) ELSE s

RECURSIVE TrimEnd(_)
TrimEnd(s) == IF s # <<>> /\ Last(s) = "/" THEN TrimEnd(Front(s)) ELSE s

TrimMatches(s) == TrimEnd(TrimStart(s))

\* The components of a path text: the names between "/" (empty ones dropped).
RECURSIVE SplitFrom(_, _, _)
SplitFrom(s, cur, acc) ==
    IF s = <<>> THEN (IF cur = <<>> THEN acc ELSE Append(acc, cur))
    ELSE IF Head(s) = "/"
         THEN SplitFrom(Tail(s), <<>>, IF cur = <<>> THEN acc ELSE Append(acc, cur))
         ELSE SplitFrom(Tail(s), Append(cur, Head(s)), acc)

Components(s) == SplitFrom(s, <<>>, <<>>)

-----------------------------------------------------------------------------
(* Path Resolver                                                           *)

Some(v) == [ok |-> TRUE, v |-> v]

None == [ok |-> FALSE, v |-> <<>>]

\* utils::decode_uri: percent-decode, None when the result is not UTF-8.
DecodeAtom(a) == IF a = "%2F" THEN "/" ELSE IF a = "%2E" THEN "." ELSE a

decode_uri(s) ==
    IF \E i \in 1..Len(s) : s[i] = "%FF" THEN None
    ELSE Some([i \in 1..Len(s) |-> DecodeAtom(s[i])])

\* str::strip_prefix
strip_prefix(s, p) ==
    IF IsPrefix(p, s) THEN Some(SubSeq(s, Len(p) + 1, Len(s))) ELSE None

\* Server::resolve_path
resolve_path(c, path) ==
    LET d == decode_uri(TrimMatches(path)) IN
    IF ~d.ok THEN None
    ELSE IF c.path_prefix = <<"/">> THEN Some(d.v)
    ELSE LET st == strip_prefix(d.v, TrimStart(c.path_prefix)) IN
         IF st.ok THEN Some(TrimMatches(st.v)) ELSE None

\* Server::join_path (PathBuf::join: an absolute argument replaces the base).
join_path(c, rel) ==
    IF rel = <<>> THEN c.path
    ELSE IF Head(rel) = "/" THEN Components(rel)
    ELSE c.path \o Components(rel)

\* Path::starts_with, component-wise.
starts_with(p, base) == IsPrefix(base, p)

\* The path with its `..` components resolved lexically.
RECURSIVE Normalize(_, _)
Normalize(p, acc) ==
    IF p = <<>> THEN acc
    ELSE IF Head(p) = DotDot
         THEN Normalize(Tail(p), IF acc = <<>> THEN acc ELSE Front(acc))
         ELSE Normalize(Tail(p), Append(acc, Head(p)))

IsDescendant(p, base) == starts_with(Normalize(p, <<>>), base)

-----------------------------------------------------------------------------
(* The filesystem: a function from the canonical absolute paths that exist *)
(* to their nodes.  The root directory <<>> always exists.                 *)

\* A node carries its kind, its size in bytes, the target of a symlink and
\* the time of its last modification, in ticks of the clock.
DirNode == [kind |-> "dir", size |-> 0, target |-> <<>>, mtime |-> 0]

\* A regular file of n bytes last written at time t.
FileNodeAt(n, t) == [kind |-> "file", size |-> n, target |-> <<>>, mtime |-> t]

FileNode(n) == FileNodeAt(n, 0)

LinkNode(t) == [kind |-> "link", size |-> 0, target |-> t, mtime |-> 0]

NodeAt(f, p) == IF p = <<>> THEN DirNode ELSE f[p]

Exists(f, p) == p = <<>> \/ p \in DOMAIN f

\* Path walk of the kernel.  cur is an existing canonical directory, rest the
\* components still to be walked; followLast tells whether a symlink in the
\* last position is followed (stat, open) or not (lstat, mkdir, unlink).
\*   err = "ok":      path is the canonical path of the object found
\*   err = "ENOENT1": only the last component is missing; path is where a
\*                    creation would put it
\*   err = "ENOENT", "ENOTDIR", "ELOOP": the walk failed
WalkResult(e, p) == [err |-> e, path |-> p]

RECURSIVE Walk(_, _, _, _, _)
Walk(f, cur, rest, followLast, fuel) ==
    IF rest = <<>> THEN WalkResult("ok", cur)
    ELSE LET c == Head(rest)
             r == Tail(rest)
             nxt == Append(cur, c)
         IN  IF c = DotDot
             THEN Walk(f, IF cur = <<>> THEN cur ELSE Front(cur), r, followLast, fuel)
             ELSE IF nxt \notin DOMAIN f
             THEN WalkResult(IF r = <<>> THEN "ENOENT1" ELSE "ENOENT", nxt)
             ELSE IF f[nxt].kind = "dir" THEN Walk(f, nxt, r, followLast, fuel)
             ELSE IF f[nxt].kind = "file"
             THEN WalkResult(IF r = <<>> THEN "ok" ELSE "ENOTDIR", nxt)
             ELSE IF r = <<>> /\ ~followLast THEN WalkResult("ok", nxt)
             ELSE IF fuel = 0 THEN WalkResult("ELOOP", nxt)
             ELSE Walk(f, <<>>, f[nxt].target \o r, followLast, fuel - 1)

Stat(f, p) == Walk(f, <<>>, p, TRUE, Fuel)

LStat(f, p) == Walk(f, <<>>, p, FALSE, Fuel)

\* fs::metadata(path): the node a path leads to, symlinks followed.
Metadata(f, p) ==
    LET w == Stat(f, p) IN
    IF w.err = "ok" THEN Some(NodeAt(f, w.path)) ELSE None

\* fs::symlink_metadata(path)
SymlinkMetadata(f, p) ==
    LET w == LStat(f, p) IN
    IF w.err = "ok" THEN Some(NodeAt(f, w.path)) ELSE None

\* fs::canonicalize(path)
Canonicalize(f, p) ==
    LET w == Stat(f, p) IN
    IF w.err = "ok" THEN Some(w.path) ELSE None

IsDirPath(f, p) == Metadata(f, p).ok /\ Metadata(f, p).v.kind = "dir"

IsFilePath(f, p) == Metadata(f, p).ok /\ Metadata(f, p).v.kind = "file"

\* The entries strictly beneath directory d.
Beneath(f, d) == {q \in DOMAIN f : Len(q) > Len(d) /\ IsPrefix(d, q)}

\* The immediate children of directory d.
Children(f, d) == {q \in DOMAIN f : Len(q) = Len(d) + 1 /\ IsPrefix(d, q)}

Restrict(f, S) == [q \in S |-> f[q]]

Put(f, p, node) == [q \in (DOMAIN f) \cup {p} |-> IF q = p THEN node ELSE f[q]]

Remove(f, S) == Restrict(f, (DOMAIN f) \ S)

FsResult(ok, f) == [ok |-> ok, fs |-> f]

-----------------------------------------------------------------------------
(* Filesystem operations, as the standard library performs them            *)

\* mkdir(2): "ok", "EEXIST", "NotFound" (ENOENT) or "Other".
Mkdir(f, p) ==
    LET w == LStat(f, p) IN
    IF w.err = "ok" THEN [err |-> "EEXIST", fs |-> f]
    ELSE IF w.err = "ENOENT1" THEN [err |-> "ok", fs |-> Put(f, w.path, DirNode)]
    ELSE IF w.err = "ENOENT" THEN [err |-> "NotFound", fs |-> f]
    ELSE [err |-> "Other", fs |-> f]

\* std::fs::create_dir_all (DirBuilder::create_dir_all): mkdir; on NotFound
\* create the lexical parent first and mkdir again; any other failure is
\* success when the path is a directory by then.
RECURSIVE create_dir_all(_, _)
create_dir_all(f, p) ==
    IF p = <<>> THEN FsResult(TRUE, f)
    ELSE LET m == Mkdir(f, p) IN
         IF m.err = "ok" THEN FsResult(TRUE, m.fs)
         ELSE IF m.err # "NotFound" THEN FsResult(IsDirPath(f, p), f)
         ELSE LET up == create_dir_all(f, Front(p)) IN
              IF ~up.ok THEN up
              ELSE LET m2 == Mkdir(up.fs, p) IN
                   IF m2.err = "ok" THEN FsResult(TRUE, m2.fs)
                   ELSE FsResult(IsDirPath(up.fs, p), up.fs)

\* ensure_path_parent
ensure_path_parent(f, p) ==
    IF p = <<>> THEN FsResult(TRUE, f)
    ELSE IF SymlinkMetadata(f, Front(p)).ok THEN FsResult(TRUE, f)
    ELSE create_dir_all(f, Front(p))

\* File::create (open with O_CREAT | O_TRUNC, the last symlink followed): the
\* canonical path of the file, now empty.
FileCreate(f, p, t) ==
    LET w == Stat(f, p) IN
    IF w.err = "ok" /\ NodeAt(f, w.path).kind = "file"
    THEN [ok |-> TRUE, fs |-> Put(f, w.path, FileNodeAt(0, t)), at |-> w.path]
    ELSE IF w.err = "ENOENT1"
    THEN [ok |-> TRUE, fs |-> Put(f, w.path, FileNodeAt(0, t)), at |-> w.path]
    ELSE [ok |-> FALSE, fs |-> f, at |-> <<>>]

\* fs::remove_file (unlink(2): the last symlink is not followed).
remove_file(f, p) ==
    LET w == LStat(f, p) IN
    IF w.err = "ok" /\ NodeAt(f, w.path).kind # "dir"
    THEN FsResult(TRUE, Remove(f, {w.path}))
    ELSE FsResult(FALSE, f)

\* fs::remove_dir_all: a symlink is unlinked; a directory is emptied and then
\* removed by rmdir(path).  When the path ends in `..` (or is "/") the
\* directory the path went through is gone by then, and rmdir fails with
\* ENOENT, which the standard library reports or ignores depending on its
\* version (ignoreNotFound).
remove_dir_all(f, p, ignoreNotFound) ==
    LET w == LStat(f, p) IN
    IF w.err # "ok" THEN FsResult(FALSE, f)
    ELSE IF NodeAt(f, w.path).kind = "link" THEN FsResult(TRUE, Remove(f, {w.path}))
    ELSE IF NodeAt(f, w.path).kind = "file" THEN FsResult(FALSE, f)
    ELSE IF p = <<>> THEN FsResult(FALSE, Remove(f, Beneath(f, w.path)))
    ELSE IF Last(p) = DotDot
    THEN FsResult(ignoreNotFound, Remove(f, Beneath(f, w.path)))
    ELSE FsResult(TRUE, Remove(f, Beneath(f, w.path) \cup {w.path}))

\* fs::copy: the source must lead to a regular file; the destination is
\* opened with create and truncate (before the bytes are read).
copy(f, from, to, t) ==
    LET src == Stat(f, from) IN
    IF ~(src.err = "ok" /\ NodeAt(f, src.path).kind = "file") THEN FsResult(FALSE, f)
    ELSE LET dst == FileCreate(f, to, t) IN
         IF ~dst.ok THEN FsResult(FALSE, f)
         ELSE FsResult(TRUE, Put(dst.fs, dst.at, FileNodeAt(dst.fs[src.path].size, t)))

\* fs::rename (rename(2): neither last symlink is followed).
rename(f, from, to) ==
    LET src == LStat(f, from)
        dst == LStat(f, to)
    IN  IF from = <<>> \/ to = <<>> THEN FsResult(FALSE, f)
        ELSE IF Last(from) = DotDot \/ Last(to) = DotDot THEN FsResult(FALSE, f)
        ELSE IF src.err # "ok" \/ dst.err \notin {"ok", "ENOENT1"} THEN FsResult(FALSE, f)
        ELSE IF src.path = dst.path THEN FsResult(TRUE, f)
        ELSE LET sdir == f[src.path].kind = "dir"
                 moved == {src.path} \cup (IF sdir THEN Beneath(f, src.path) ELSE {})
                 To(q) == dst.path \o SubSeq(q, Len(src.path) + 1, Len(q))
                 kept == (DOMAIN f) \ (moved \cup {dst.path})
             IN  IF sdir /\ IsPrefix(src.path, dst.path) THEN FsResult(FALSE, f)
                 ELSE IF dst.err = "ok" /\ sdir
                         /\ ~(f[dst.path].kind = "dir" /\ Children(f, dst.path) = {})
                 THEN FsResult(FALSE, f)
                 ELSE IF dst.err = "ok" /\ ~sdir /\ f[dst.path].kind = "dir"
                 THEN FsResult(FALSE, f)
                 ELSE FsResult(TRUE,
                        [q \in kept \cup {To(m) : m \in moved} |->
                            IF q \in kept THEN f[q]
                            ELSE f[CHOOSE m \in moved : To(m) = q]])

-----------------------------------------------------------------------------
(* Responses                                                               *)

INDEX_NAME == <<"index", ".", "html">>

\* A header that the message does not carry.
NoHeader == [kind |-> "absent"]

\* Response::default(): status 200, no headers, empty body.  The fields
\* action, src, items, base, len and dir_exists describe the body and what
\* produced it: the handler chosen, the canonical path of the file whose
\* bytes are sent, the entries of a listing, multistatus or archive (names
\* relative to base), the Content-Length, and IndexData::dir_exists.  etag
\* and content_range are the values of these headers, sent the offsets of
\* the bytes of src that the body streams, finalized whether the archive of
\* the body ends with its end-of-archive record.
DefaultRes ==
    [status |-> 200, body |-> "", headers |-> {}, action |-> "none",
     src |-> None, items |-> {}, base |-> <<>>, len |-> 0, dir_exists |-> TRUE,
     etag |-> NoHeader, content_range |-> NoHeader, sent |-> {},
     finalized |-> FALSE]

\* What a handler returns: the response, the filesystem it leaves, and
\* whether it returned Err (the response is then dropped by call).
Done(r0, f) == [res |-> r0, fs |-> f, err |-> FALSE, panic |-> FALSE]

Err(f) == [res |-> DefaultRes, fs |-> f, err |-> TRUE, panic |-> FALSE]

\* The handler panicked: the task of the connection ends and the client
\* gets no response (status 0).
NoResponse == [DefaultRes EXCEPT !.status = 0, !.action = "panic"]

Panic(f) == [res |-> NoResponse, fs |-> f, err |-> FALSE, panic |-> TRUE]

status_forbid(r0) == [r0 EXCEPT !.status = 403, !.body = "Forbidden"]

status_not_found(r0) == [r0 EXCEPT !.status = 404, !.body = "Not Found"]

status_no_content(r0) == [r0 EXCEPT !.status = 204]

\* A set_webdav_headers that leaves out the DAV header.
set_webdav_headers_allow_only(r0) == [r0 EXCEPT !.headers = @ \cup {"Allow"}]

set_webdav_headers(r0) == [r0 EXCEPT !.headers = @ \cup {"Allow", "DAV"}]

\* auth_reject that leaves out the WebDAV headers.
auth_reject_without_dav(r0) ==
    [r0 EXCEPT !.headers = @ \cup {"WWW-Authenticate"}, !.status = 401]

\* Server::auth_reject
auth_reject(r0) ==
    [set_webdav_headers(r0) EXCEPT !.headers = @ \cup {"WWW-Authenticate"},
                                   !.status = 401]

res_multistatus(r0, items, base) ==
    [r0 EXCEPT !.status = 207, !.headers = @ \cup {"content-type"},
               !.body = "multistatus", !.items = items, !.base = base]

-----------------------------------------------------------------------------
(* Hidden Filter and PathItem                                              *)

\* utils::glob, for the patterns without wildcards: the literal name.
glob(pattern, name) == pattern = name

\* An is_hidden that strips the "/" of a pattern for every type of entry.
is_hidden_any_type(c, file_name, is_dir_type) ==
    \/ c.posix_hidden /\ file_name # <<>> /\ Head(file_name) = "."
    \/ \E v \in c.hidden :
          \/ v # <<>> /\ Last(v) = "/" /\ glob(Front(v), file_name)
          \/ glob(v, file_name)

\* is_hidden: a pattern is a name, followed by "/" when it is for
\* directories only.
is_hidden(c, file_name, is_dir_type) ==
    \/ c.posix_hidden /\ file_name # <<>> /\ Head(file_name) = "."
    \/ \E v \in c.hidden :
          \/ is_dir_type /\ v # <<>> /\ Last(v) = "/" /\ glob(Front(v), file_name)
          \/ glob(v, file_name)

\* utils::get_file_name: the last component, "" when there is none.
get_file_name(p) == IF p = <<>> \/ Last(p) = DotDot THEN <<>> ELSE Last(p)

\* Path::extension().is_some()
HasExtension(p) ==
    LET n == get_file_name(p) IN \E i \in 2..Len(n) : n[i] = "."

\* Option<u64> of PathItem::size
NoSize == [some |-> FALSE, n |-> 0]

SizeOf(n) == [some |-> TRUE, n |-> n]

\* Server::is_root_contained
is_root_contained(c, f, p) ==
    LET cp == Canonicalize(f, p) IN cp.ok /\ starts_with(cp.v, c.path)

\* Server::to_pathitem: err when it returns Err, else ok tells Some from
\* None.  name is path relative to base_path, as components.
to_pathitem(c, f, p, base_path) ==
    LET meta == Metadata(f, p)
        meta2 == SymlinkMetadata(f, p)
    IN  IF ~meta.ok \/ ~meta2.ok THEN [err |-> TRUE, ok |-> FALSE, v |-> <<>>]
        ELSE LET is_symlink == meta2.v.kind = "link"
                 is_dir == meta.v.kind = "dir"
             IN  IF ~c.allow_symlink /\ is_symlink /\ ~is_root_contained(c, f, p)
                 THEN [err |-> FALSE, ok |-> FALSE, v |-> <<>>]
                 ELSE IF ~starts_with(p, base_path)
                 THEN [err |-> TRUE, ok |-> FALSE, v |-> <<>>]
                 ELSE [err |-> FALSE, ok |-> TRUE,
                       v |-> [path_type |->
                                 IF is_symlink
                                 THEN (IF is_dir THEN "SymlinkDir" ELSE "SymlinkFile")
                                 ELSE (IF is_dir THEN "Dir" ELSE "File"),
                              name |-> SubSeq(p, Len(base_path) + 1, Len(p)),
                              size |-> IF is_dir THEN NoSize ELSE SizeOf(meta.v.size)]]

\* PathItem::is_dir
item_is_dir(item) == item.path_type \in {"Dir", "SymlinkDir"}

\* normalize_path of a relative path: its components joined by "/".
RECURSIVE JoinName(_)
JoinName(name) ==
    IF name = <<>> THEN <<>>
    ELSE IF Len(name) = 1 THEN Head(name)
    ELSE Head(name) \o <<"/">> \o JoinName(Tail(name))

\* utils::encode_uri
EncodeAtom(a) == IF a = " " THEN "%20" ELSE a

encode_uri(s) == [i \in 1..Len(s) |-> EncodeAtom(s[i])]

\* The href PathItem::to_dav_xml writes for item under the URI prefix.
to_dav_href(prefix, item) ==
    LET href == encode_uri(prefix \o JoinName(item.name))
    IN  IF item_is_dir(item) /\ (href = <<>> \/ Last(href) # "/")
        THEN Append(href, "/") ELSE href

\* Server::add_pathitem: the items an entry adds to a listing.
add_pathitem(c, f, base_path, entry_path) ==
    LET it == to_pathitem(c, f, entry_path, base_path) IN
    IF it.err \/ ~it.ok THEN {}
    ELSE IF is_hidden(c, get_file_name(entry_path), item_is_dir(it.v)) THEN {}
    ELSE {it.v}

\* AccessPaths::perm().indexonly()
indexonly(access) == access.perm = "IndexOnly"

\* AccessPaths::leaf_paths
leaf_paths(access, base) ==
    IF ~indexonly(access) THEN {base}
    ELSE {Append(base, n) : n \in access.child_paths}

\* A list_dir that reads the directory whatever the caller's permission.
list_dir_read_dir(c, f, entry_path, base_path, access) ==
    LET w == Stat(f, entry_path) IN
    IF ~(w.err = "ok" /\ NodeAt(f, w.path).kind = "dir")
    THEN [ok |-> FALSE, items |-> {}]
    ELSE [ok |-> TRUE,
          items |-> UNION {add_pathitem(c, f, base_path, Append(entry_path, Last(q))) :
                              q \in Children(f, w.path)}]

\* Server::list_dir
list_dir(c, f, entry_path, base_path, access) ==
    IF indexonly(access)
    THEN [ok |-> TRUE,
          items |-> UNION {add_pathitem(c, f, base_path, Append(entry_path, n)) :
                              n \in access.child_paths}]
    ELSE LET w == Stat(f, entry_path) IN
         IF ~(w.err = "ok" /\ NodeAt(f, w.path).kind = "dir")
         THEN [ok |-> FALSE, items |-> {}]
         ELSE [ok |-> TRUE,
               items |-> UNION {add_pathitem(c, f, base_path, Append(entry_path, Last(q))) :
                                   q \in Children(f, w.path)}]

-----------------------------------------------------------------------------
(* Walkers of search and zip                                               *)

\* str::to_lowercase
to_lowercase(s) == [i \in 1..Len(s) |-> IF s[i] = "A" THEN "a" ELSE s[i]]

\* str::contains
contains(s, sub) ==
    \E i \in 0..Len(s) : i + Len(sub) <= Len(s) /\ SubSeq(s, i + 1, i + Len(sub)) = sub

\* Whether WalkDir descends into an entry: a directory, or the root of the
\* walk when it is a symlink to a directory.
Descends(f, p, depth0) ==
    LET w == LStat(f, p) IN
    \/ NodeAt(f, w.path).kind = "dir"
    \/ depth0 /\ NodeAt(f, w.path).kind = "link" /\ IsDirPath(f, p)

\* A set as a sequence, in some order.
RECURSIVE SeqOf(_)
SeqOf(S) ==
    IF S = {} THEN <<>>
    ELSE LET x == CHOOSE y \in S : TRUE IN <<x>> \o SeqOf(S \ {x})

Reverse(s) == [i \in 1..Len(s) |-> s[Len(s) + 1 - i]]

\* The order in which a directory yields its entries: one order, or the
\* opposite one when rev.
read_dir(f, dir, rev) ==
    IF rev THEN Reverse(SeqOf(Children(f, dir))) ELSE SeqOf(Children(f, dir))

\* Whether the loops of handle_search_dir and zip_dir take the entry p for
\* hidden: the file type is that of lstat, so a symlink is never of the
\* directory type.
entry_hidden(c, f, p) ==
    is_hidden(c, get_file_name(p), NodeAt(f, LStat(f, p).path).kind = "dir")

\* The entries that WalkDir yields from p on, in order, to a loop that calls
\* skip_current_dir for the hidden directories.
RECURSIVE walk_dir(_, _, _, _, _)
RECURSIVE walk_dirs(_, _, _, _, _)
walk_dir(c, f, p, depth0, rev) ==
    IF LStat(f, p).err # "ok" THEN <<>>
    ELSE <<p>> \o
         (IF Descends(f, p, depth0)
             /\ ~(entry_hidden(c, f, p) /\ NodeAt(f, LStat(f, p).path).kind = "dir")
          THEN walk_dirs(c, f, p, read_dir(f, Stat(f, p).path, rev), rev)
          ELSE <<>>)

walk_dirs(c, f, p, kids, rev) ==
    IF kids = <<>> THEN <<>>
    ELSE walk_dir(c, f, Append(p, Last(Head(kids))), FALSE, rev)
         \o walk_dirs(c, f, p, Tail(kids), rev)

\* The entries of the walks of the leaves, one walk after the other.
RECURSIVE walk_leaves(_, _, _, _)
walk_leaves(c, f, leaves, rev) ==
    IF leaves = <<>> THEN <<>>
    ELSE walk_dir(c, f, Head(leaves), TRUE, rev) \o walk_leaves(c, f, Tail(leaves), rev)

\* A while_running that reads the flag after it has handled the entry.
while_running_late(entries, stop) ==
    IF stop.ok /\ stop.v + 1 < Len(entries) THEN SubSeq(entries, 1, stop.v + 1) ELSE entries

\* The entries a loop handles before running.load() answers false: all of
\* them when stop is None, else the first stop.v.  The loop of a later leaf
\* breaks at its first entry.
while_running(entries, stop) ==
    IF stop.ok /\ stop.v < Len(entries) THEN SubSeq(entries, 1, stop.v) ELSE entries

\* Whether a walk was cut short by the flag.
aborted(entries, stop) == stop.ok /\ stop.v < Len(entries)

\* A search_walk that pushes every entry whose name matches.
search_walk_matching(c, f, r, path, search) ==
    LET entries == while_running(
                       walk_leaves(c, f, SeqOf(leaf_paths(r.access, path)), r.rev), r.stop)
    IN  {entries[i] : i \in {j \in DOMAIN entries :
                                contains(to_lowercase(get_file_name(entries[j])), search)}}

\* The loops of handle_search_dir over the leaves: the paths pushed.
search_walk(c, f, r, path, search) ==
    LET entries == while_running(
                       walk_leaves(c, f, SeqOf(leaf_paths(r.access, path)), r.rev), r.stop)
    IN  {entries[i] : i \in {j \in DOMAIN entries :
                                /\ ~entry_hidden(c, f, entries[j])
                                /\ contains(to_lowercase(get_file_name(entries[j])), search)}}

\* A zip_walk that pushes every entry but the directories.
zip_walk_links(c, f, r, path) ==
    LET entries == while_running(
                       walk_leaves(c, f, SeqOf(leaf_paths(r.access, path)), r.rev), r.stop)
    IN  {entries[i] : i \in {j \in DOMAIN entries :
                                /\ ~entry_hidden(c, f, entries[j])
                                /\ NodeAt(f, LStat(f, entries[j]).path).kind # "dir"}}

\* The loops of zip_dir over the leaves: the regular files pushed.
zip_walk(c, f, r, path) ==
    LET entries == while_running(
                       walk_leaves(c, f, SeqOf(leaf_paths(r.access, path)), r.rev), r.stop)
    IN  {entries[i] : i \in {j \in DOMAIN entries :
                                /\ ~entry_hidden(c, f, entries[j])
                                /\ NodeAt(f, LStat(f, entries[j]).path).kind = "file"}}

-----------------------------------------------------------------------------
(* Handlers                                                                *)

\* The clock ticks TicksPerMs times in a millisecond, and a second has
\* MsPerSec milliseconds (2 and 2 stand for 1000000 and 1000).
TicksPerMs == 2

MsPerSec == 2

\* to_timestamp: the milliseconds since the epoch, the rest dropped.
to_timestamp(t) == t \div TicksPerMs

\* HttpDate::from(SystemTime): the seconds since the epoch, the rest dropped.
HttpDate(t) == t \div (TicksPerMs * MsPerSec)

\* The entity tag "<timestamp>-<size>".
ETag(timestamp, size) == [timestamp |-> timestamp, size |-> size]

\* extract_cache_headers
extract_cache_headers(meta) ==
    [etag |-> ETag(to_timestamp(meta.mtime), meta.size),
     last_modified |-> HttpDate(meta.mtime)]

\* IfNoneMatch::precondition_passes: no tag of the header is the etag; the
\* header `*` never passes.
precondition_passes(if_none_match, etag) ==
    if_none_match.kind = "tags" /\ etag \notin if_none_match.tags

\* IfModifiedSince::is_modified
is_modified(if_modified_since, last_modified) ==
    if_modified_since.sec < last_modified

\* IfRange::is_modified
if_range_is_modified(if_range, etag, last_modified) ==
    IF if_range.kind = "date" THEN if_range.sec < last_modified
    ELSE if_range.tag # etag

\* The numbers a header can spell.
U64Text ==
    ("0" :> 0) @@ ("1" :> 1) @@ ("2" :> 2) @@ ("3" :> 3) @@ ("4" :> 4) @@ ("5" :> 5)

\* str::splitn(2, '-') of a sequence of tokens: the tokens before the first
\* "-", and those after it when there is one.
SplitDash(spec) ==
    IF \E i \in 1..Len(spec) : spec[i] = "-"
    THEN LET i == CHOOSE k \in 1..Len(spec) :
                     spec[k] = "-" /\ \A j \in 1..(k - 1) : spec[j] # "-"
         IN  [head |-> SubSeq(spec, 1, i - 1), rest |-> Some(SubSeq(spec, i + 1, Len(spec)))]
    ELSE [head |-> spec, rest |-> None]

\* str::parse::<u64>
ParseU64(toks) ==
    IF Len(toks) = 1 /\ toks[1] \in DOMAIN U64Text THEN Some(U64Text[toks[1]]) ELSE None

\* parse_range: the RangeValue of the Range header, None when there is none.
parse_range(range) ==
    IF range.kind = "absent" \/ range.units # "bytes" THEN None
    ELSE LET sp == SplitDash(range.spec) IN
         IF ~ParseU64(sp.head).ok THEN None
         ELSE IF ~sp.rest.ok \/ sp.rest.v = <<>>
         THEN Some([start |-> ParseU64(sp.head).v, end |-> None])
         ELSE IF ~ParseU64(sp.rest.v).ok THEN None
         ELSE Some([start |-> ParseU64(sp.head).v, end |-> ParseU64(sp.rest.v)])

\* The arithmetic of u64 wraps at U64Modulus (2^4 stands for 2^64) unless
\* the build checks for overflow.
U64Modulus == 16

Wrap(x) == x % U64Modulus

\* A send_file_cached that lets If-Modified-Since decide when it is present.
send_file_cached_by_date(r, cache) ==
    IF r.if_modified_since.kind # "absent"
    THEN ~is_modified(r.if_modified_since, cache.last_modified)
    ELSE IF r.if_none_match.kind # "absent"
    THEN ~precondition_passes(r.if_none_match, cache.etag)
    ELSE FALSE

\* Whether the request is answered 304: If-None-Match decides when present,
\* else If-Modified-Since.
send_file_cached(r, cache) ==
    IF r.if_none_match.kind # "absent"
    THEN ~precondition_passes(r.if_none_match, cache.etag)
    ELSE IF r.if_modified_since.kind # "absent"
    THEN ~is_modified(r.if_modified_since, cache.last_modified)
    ELSE FALSE

\* The range that handle_send_file honours: that of the Range header, unless
\* an If-Range header tells that the file was modified.
send_file_range(r, cache) ==
    IF r.range.kind = "absent" \/ r.range.units # "bytes" THEN None
    ELSE IF r.if_range.kind # "absent"
            /\ if_range_is_modified(r.if_range, cache.etag, cache.last_modified)
    THEN None
    ELSE parse_range(r.range)

\* A send_file_body that does not cap the end of the range.
send_file_body_uncapped(r, range, size, src, head_only, r1, f) ==
    IF ~range.ok
    THEN Done([r1 EXCEPT !.headers = @ \cup {"content-length"},
                         !.len = size,
                         !.sent = IF head_only THEN {} ELSE 0..(size - 1),
                         !.body = IF head_only THEN "" ELSE "file"], f)
    ELSE IF ~(IF range.v.end.ok THEN range.v.end.v >= range.v.start
              ELSE range.v.start < size)
    THEN Done([r1 EXCEPT !.status = 416, !.headers = @ \cup {"content-range"},
                         !.content_range = [kind |-> "unsatisfied", size |-> size]], f)
    ELSE LET end == IF range.v.end.ok THEN range.v.end.v ELSE Wrap(size - 1)
             part_size == Wrap(end - range.v.start + 1)
         IN  Done([r1 EXCEPT !.status = 206,
                             !.headers = @ \cup {"content-range", "content-length"},
                             !.content_range = [kind |-> "bytes", start |-> range.v.start,
                                                end |-> end, size |-> size],
                             !.len = part_size,
                             !.sent = IF head_only THEN {}
                                      ELSE {i \in 0..(size - 1) :
                                               range.v.start <= i
                                               /\ i < range.v.start + part_size},
                             !.body = IF head_only THEN "" ELSE "file"], f)

\* handle_send_file from the range on: r1 carries the headers set so far,
\* size is the length of the file at src.
send_file_body(r, range, size, src, head_only, r1, f) ==
    IF ~range.ok
    THEN Done([r1 EXCEPT !.headers = @ \cup {"content-length"},
                         !.len = size,
                         !.sent = IF head_only THEN {} ELSE 0..(size - 1),
                         !.body = IF head_only THEN "" ELSE "file"], f)
    ELSE IF ~(IF range.v.end.ok THEN range.v.end.v >= range.v.start
              ELSE range.v.start < size)
    THEN Done([r1 EXCEPT !.status = 416, !.headers = @ \cup {"content-range"},
                         !.content_range = [kind |-> "unsatisfied", size |-> size]], f)
    ELSE IF r.checks /\ (size = 0 \/ (IF range.v.end.ok /\ range.v.end.v < size - 1
                                        THEN range.v.end.v ELSE size - 1) < range.v.start)
    THEN Panic(f)
    ELSE LET last == Wrap(size - 1)
             end == IF range.v.end.ok /\ range.v.end.v < last THEN range.v.end.v ELSE last
             part_size == Wrap(end - range.v.start + 1)
         IN  Done([r1 EXCEPT !.status = 206,
                             !.headers = @ \cup {"content-range", "content-length"},
                             !.content_range = [kind |-> "bytes", start |-> range.v.start,
                                                end |-> end, size |-> size],
                             !.len = part_size,
                             !.sent = IF head_only THEN {}
                                      ELSE {i \in 0..(size - 1) :
                                               range.v.start <= i
                                               /\ i < range.v.start + part_size},
                             !.body = IF head_only THEN "" ELSE "file"], f)

\* Server::handle_send_file: open and stat, the conditional headers, the
\* content type read from the file's head, the file name for
\* Content-Disposition, the range.
handle_send_file(c, f, r, path, head_only, r0) ==
    LET w == Stat(f, path) IN
    IF w.err # "ok" THEN Err(f)
    ELSE IF NodeAt(f, w.path).kind # "file" THEN Err(f)
    ELSE IF send_file_cached(r, extract_cache_headers(NodeAt(f, w.path)))
    THEN Done([r0 EXCEPT !.status = 304, !.action = "send_file"], f)
    ELSE IF get_file_name(path) = <<>> THEN Err(f)
    ELSE send_file_body(r,
            send_file_range(r, extract_cache_headers(NodeAt(f, w.path))),
            NodeAt(f, w.path).size, w.path, head_only,
            [r0 EXCEPT !.action = "send_file",
                       !.headers = @ \cup {"last-modified", "etag", "content-type",
                                           "content-disposition", "accept-ranges"},
                       !.etag = extract_cache_headers(NodeAt(f, w.path)).etag,
                       !.src = Some(w.path)], f)

\* Server::send_index
send_index(c, f, r, path, paths, exist, head_only, r0) ==
    IF "simple" \in r.query
    THEN Done([r0 EXCEPT !.action = "index", !.items = paths, !.base = path,
                         !.dir_exists = exist,
                         !.headers = @ \cup {"content-type", "content-length"},
                         !.body = "simple"], f)
    ELSE IF ~starts_with(path, c.path) THEN Err(f)
    ELSE Done([r0 EXCEPT !.action = "index", !.items = paths, !.base = path,
                         !.dir_exists = exist,
                         !.headers = @ \cup {"content-type", "content-length"},
                         !.body = IF head_only THEN ""
                                  ELSE IF "json" \in r.query THEN "json" ELSE "html"], f)

\* Server::handle_ls_dir
handle_ls_dir(c, f, r, path, exist, head_only, r0) ==
    LET l == list_dir(c, f, path, path, r.access) IN
    IF exist /\ ~l.ok THEN Done(status_forbid(r0), f)
    ELSE send_index(c, f, r, path, IF exist THEN l.items ELSE {}, exist, head_only, r0)

\* Server::handle_search_dir
handle_search_dir(c, f, r, path, head_only, r0) ==
    LET search == to_lowercase(r.q)
        search_paths == search_walk(c, f, r, path, search)
        found == {sp \in search_paths :
                     ~to_pathitem(c, f, sp, path).err /\ to_pathitem(c, f, sp, path).ok}
        paths == IF search = <<>> THEN {}
                 ELSE {to_pathitem(c, f, sp, path).v : sp \in found}
        out == send_index(c, f, r, path, paths, TRUE, head_only, r0)
    IN  IF "q" \notin r.query THEN Err(f)
        ELSE IF out.err THEN out
        ELSE Done([out.res EXCEPT !.action = "search"], f)

\* Server::handle_zip_dir with zip_dir: the archive holds the files pushed
\* by the walk whose path is under the zipped directory, and zip_dir closes
\* the ZipFileWriter after the last of them.
handle_zip_dir(c, f, r, path, head_only, r0) ==
    LET zip_paths == zip_walk(c, f, r, path)
        names == {SubSeq(zp, Len(path) + 1, Len(zp)) :
                     zp \in {z \in zip_paths : starts_with(z, path)}}
        r1 == [r0 EXCEPT !.action = "zip",
                         !.headers = @ \cup {"content-disposition", "content-type"}]
    IN  IF get_file_name(path) = <<>> THEN Err(f)
        ELSE IF head_only THEN Done(r1, f)
        ELSE Done([r1 EXCEPT !.body = "zip", !.items = names, !.base = path,
                             !.finalized = TRUE], f)

\* A render_index that falls back to the listing under every flag.
handle_render_index_listing(c, f, r, path, head_only, r0) ==
    LET index_path == Append(path, INDEX_NAME) IN
    IF IsFilePath(f, index_path) THEN handle_send_file(c, f, r, index_path, head_only, r0)
    ELSE handle_ls_dir(c, f, r, path, TRUE, head_only, r0)

\* Server::handle_render_index
handle_render_index(c, f, r, path, head_only, r0) ==
    LET index_path == Append(path, INDEX_NAME) IN
    IF IsFilePath(f, index_path) THEN handle_send_file(c, f, r, index_path, head_only, r0)
    ELSE IF c.render_try_index THEN handle_ls_dir(c, f, r, path, TRUE, head_only, r0)
    ELSE Done(status_not_found(r0), f)

\* A render_spa that sends the root index.html for every missing path.
handle_render_spa_always(c, f, r, path, head_only, r0) ==
    handle_send_file(c, f, r, Append(c.path, INDEX_NAME), head_only, r0)

\* Server::handle_render_spa
handle_render_spa(c, f, r, path, head_only, r0) ==
    IF ~HasExtension(path)
    THEN handle_send_file(c, f, r, Append(c.path, INDEX_NAME), head_only, r0)
    ELSE Done(status_not_found(r0), f)

\* Server::handle_edit_file
handle_edit_file(c, f, r, path, head_only, r0) ==
    LET w == Stat(f, path) IN
    IF w.err # "ok" THEN Err(f)
    ELSE IF ~starts_with(path, c.path) THEN Err(f)
    ELSE IF NodeAt(f, w.path).kind # "file" THEN Err(f)
    ELSE Done([r0 EXCEPT !.action = "edit",
                         !.headers = @ \cup {"content-type", "content-length"},
                         !.body = IF head_only THEN "" ELSE "edit"], f)


\* An upload that answers 200 where handle_upload answers 201.
handle_upload_ok(c, f, r, path, r0) ==
    LET par == ensure_path_parent(f, path) IN
    IF ~par.ok THEN Err(par.fs)
    ELSE LET cr == FileCreate(par.fs, path, r.now) IN
         IF ~cr.ok THEN Done(status_forbid(r0), par.fs)
         ELSE IF ~r.body.ok THEN Err(cr.fs)
         ELSE Done([r0 EXCEPT !.action = "upload"],
                   Put(cr.fs, cr.at, FileNodeAt(r.body.size, r.now)))

\* A handle_upload that asks the overwrite gate again when it creates the
\* file.
handle_upload_gated(c, f, r, path, r0) ==
    LET par == ensure_path_parent(f, path) IN
    IF ~par.ok THEN Err(par.fs)
    ELSE IF ~c.allow_delete /\ IsFilePath(par.fs, path) /\ Metadata(par.fs, path).v.size > 0
    THEN Done(status_forbid(r0), par.fs)
    ELSE LET cr == FileCreate(par.fs, path, r.now) IN
         IF ~cr.ok THEN Done(status_forbid(r0), par.fs)
         ELSE IF ~r.body.ok THEN Err(cr.fs)
         ELSE Done([r0 EXCEPT !.status = 201, !.action = "upload"],
                   Put(cr.fs, cr.at, FileNodeAt(r.body.size, r.now)))

\* Server::handle_upload: the body is r.body.size bytes long; r.body.ok is
\* false when reading it fails part-way.
handle_upload(c, f, r, path, r0) ==
    LET par == ensure_path_parent(f, path) IN
    IF ~par.ok THEN Err(par.fs)
    ELSE LET cr == FileCreate(par.fs, path, r.now) IN
         IF ~cr.ok THEN Done(status_forbid(r0), par.fs)
         ELSE IF ~r.body.ok THEN Err(cr.fs)
         ELSE Done([r0 EXCEPT !.status = 201, !.action = "upload"],
                   Put(cr.fs, cr.at, FileNodeAt(r.body.size, r.now)))

\* A delete that unlinks whatever the target is.
handle_delete_unlink(c, f, r, path, is_dir, r0) ==
    LET rm == remove_file(f, path) IN
    IF ~rm.ok THEN Err(rm.fs)
    ELSE Done([status_no_content(r0) EXCEPT !.action = "delete"], rm.fs)

\* A handle_delete that takes a target that is gone for deleted.
handle_delete_gone(c, f, r, path, is_dir, r0) ==
    LET rm == IF is_dir THEN remove_dir_all(f, path, r.env) ELSE remove_file(f, path) IN
    Done([status_no_content(r0) EXCEPT !.action = "delete"], rm.fs)

\* Server::handle_delete
handle_delete(c, f, r, path, is_dir, r0) ==
    LET rm == IF is_dir THEN remove_dir_all(f, path, r.env) ELSE remove_file(f, path) IN
    IF ~rm.ok THEN Err(rm.fs)
    ELSE Done([status_no_content(r0) EXCEPT !.action = "delete"], rm.fs)

\* The u32 a Depth header value parses to.
DepthValues == {"0", "1", "2"}

\* A handle_propfind_dir that lists the entries whatever the Depth.
handle_propfind_dir_entries(c, f, r, path, access, r0) ==
    LET self == to_pathitem(c, f, path, c.path)
        l == list_dir(c, f, path, c.path, access)
        r1 == [r0 EXCEPT !.action = "propfind_dir"]
    IN  IF r.depth # "absent" /\ r.depth \notin DepthValues
        THEN Done([r1 EXCEPT !.status = 400], f)
        ELSE IF self.err THEN Err(f)
        ELSE IF ~l.ok THEN Done(status_forbid(r1), f)
        ELSE Done(res_multistatus(r1,
                     (IF self.ok THEN {self.v} ELSE {}) \cup l.items, c.path), f)

\* Server::handle_propfind_dir
handle_propfind_dir(c, f, r, path, access, r0) ==
    LET self == to_pathitem(c, f, path, c.path)
        l == list_dir(c, f, path, c.path, access)
        r1 == [r0 EXCEPT !.action = "propfind_dir"]
    IN  IF r.depth # "absent" /\ r.depth \notin DepthValues
        THEN Done([r1 EXCEPT !.status = 400], f)
        ELSE IF self.err THEN Err(f)
        ELSE IF r.depth # "0" /\ ~l.ok THEN Done(status_forbid(r1), f)
        ELSE Done(res_multistatus(r1,
                     (IF self.ok THEN {self.v} ELSE {})
                       \cup (IF r.depth # "0" THEN l.items ELSE {}), c.path), f)

\* Server::handle_propfind_file
handle_propfind_file(c, f, r, path, r0) ==
    LET it == to_pathitem(c, f, path, c.path)
        r1 == [r0 EXCEPT !.action = "propfind_file"]
    IN  IF it.err THEN Err(f)
        ELSE IF it.ok THEN Done(res_multistatus(r1, {it.v}, c.path), f)
        ELSE Done(status_not_found(r1), f)

\* A MKCOL that makes the directory alone, not its ancestors.
handle_mkcol_single(c, f, r, path, r0) ==
    LET mk == Mkdir(f, path) IN
    IF mk.err # "ok" THEN Err(mk.fs)
    ELSE Done([r0 EXCEPT !.status = 201, !.action = "mkcol"], mk.fs)

\* Server::handle_mkcol
handle_mkcol(c, f, r, path, r0) ==
    LET mk == create_dir_all(f, path) IN
    IF ~mk.ok THEN Err(mk.fs)
    ELSE Done([r0 EXCEPT !.status = 201, !.action = "mkcol"], mk.fs)

\* An extract_dest that does not ask the guard about the destination.
extract_dest_unguarded(c, r, r0) ==
    LET rel == resolve_path(c, r.dest.path) IN
    IF r.dest.kind # "uri" THEN [ok |-> FALSE, res |-> [r0 EXCEPT !.status = 400], v |-> <<>>]
    ELSE IF ~rel.ok THEN [ok |-> FALSE, res |-> [r0 EXCEPT !.status = 400], v |-> <<>>]
    ELSE [ok |-> TRUE, res |-> r0, v |-> join_path(c, rel.v)]

\* Server::extract_dest with extract_destination_header: the destination
\* path, or the response that refuses the request.
extract_dest(c, r, r0) ==
    LET rel == resolve_path(c, r.dest.path) IN
    IF r.dest.kind # "uri" THEN [ok |-> FALSE, res |-> [r0 EXCEPT !.status = 400], v |-> <<>>]
    ELSE IF ~rel.ok THEN [ok |-> FALSE, res |-> [r0 EXCEPT !.status = 400], v |-> <<>>]
    ELSE IF r.dest.guard # "Granted"
    THEN [ok |-> FALSE, res |-> status_forbid(r0), v |-> <<>>]
    ELSE [ok |-> TRUE, res |-> r0, v |-> join_path(c, rel.v)]

\* Server::handle_copy
handle_copy(c, f, r, path, r0) ==
    LET dest == extract_dest(c, r, [r0 EXCEPT !.action = "copy"])
        meta == SymlinkMetadata(f, path)
        par == ensure_path_parent(f, dest.v)
        cp == copy(par.fs, path, dest.v, r.now)
    IN  IF ~dest.ok THEN Done(dest.res, f)
        ELSE IF ~meta.ok THEN Err(f)
        ELSE IF meta.v.kind = "dir" THEN Done(status_forbid(dest.res), f)
        ELSE IF ~par.ok THEN Err(par.fs)
        ELSE IF ~cp.ok THEN Err(cp.fs)
        ELSE Done(status_no_content(dest.res), cp.fs)

\* A MOVE that refuses a directory source as handle_copy does.
handle_move_files_only(c, f, r, path, r0) ==
    LET dest == extract_dest(c, r, [r0 EXCEPT !.action = "move"])
        meta == SymlinkMetadata(f, path)
        par == ensure_path_parent(f, dest.v)
        mv == rename(par.fs, path, dest.v)
    IN  IF ~dest.ok THEN Done(dest.res, f)
        ELSE IF ~meta.ok THEN Err(f)
        ELSE IF meta.v.kind = "dir" THEN Done(status_forbid(dest.res), f)
        ELSE IF ~par.ok THEN Err(par.fs)
        ELSE IF ~mv.ok THEN Err(mv.fs)
        ELSE Done(status_no_content(dest.res), mv.fs)

\* Server::handle_move
handle_move(c, f, r, path, r0) ==
    LET dest == extract_dest(c, r, [r0 EXCEPT !.action = "move"])
        par == ensure_path_parent(f, dest.v)
        mv == rename(par.fs, path, dest.v)
    IN  IF ~dest.ok THEN Done(dest.res, f)
        ELSE IF ~par.ok THEN Err(par.fs)
        ELSE IF ~mv.ok THEN Err(mv.fs)
        ELSE Done(status_no_content(dest.res), mv.fs)

\* A handle_lock that keeps the lock: it leaves a file beside the locked one.
handle_lock_kept(c, f, r, r0) ==
    Done([r0 EXCEPT !.action = "lock", !.headers = @ \cup {"content-type", "lock-token"},
                    !.body = "lock"],
         Put(f, c.path \o << <<"lock">> >>, FileNode(0)))

\* Server::handle_lock
handle_lock(c, f, r, r0) ==
    Done([r0 EXCEPT !.action = "lock", !.headers = @ \cup {"content-type", "lock-token"},
                    !.body = "lock"], f)

\* Server::handle_proppatch
handle_proppatch(c, f, r, r0) ==
    Done([res_multistatus(r0, {}, c.path) EXCEPT !.action = "proppatch"], f)


-----------------------------------------------------------------------------
(* Request Dispatcher                                                      *)

\* Server::init: assets_prefix and single_file_req_paths.
assets_prefix(c) == c.uri_prefix \o <<"__dufs_v0_">>

single_file_req_paths(c) ==
    IF c.path_is_file
    THEN {c.uri_prefix, Front(c.uri_prefix), encode_uri(c.uri_prefix \o get_file_name(c.path))}
    ELSE {}

EmbeddedAssets == {<<"index", ".", "js">>, <<"index", ".", "css">>, <<"favicon", ".", "ico">>}

\* Server::handle_assets, once the request path starts with assets_prefix;
\* name is the rest of the path.
handle_assets(c, f, r, name, r0) ==
    LET sent == handle_send_file(c, f, r,
                    IF name # <<>> /\ Head(name) = "/" THEN Components(name)
                    ELSE c.assets_path.v \o Components(name), FALSE, r0)
        r1 == IF c.assets_path.ok THEN sent.res
              ELSE IF name \in EmbeddedAssets
              THEN [r0 EXCEPT !.body = "asset", !.headers = @ \cup {"content-type"}]
              ELSE status_not_found(r0)
    IN  IF c.assets_path.ok /\ sent.err THEN Err(f)
        ELSE IF c.assets_path.ok /\ sent.panic THEN Panic(f)
        ELSE Done([r1 EXCEPT !.action = "assets", !.headers = @ \cup {"cache-control"}], f)

\* A method match whose MKCOL does not ask for allow_upload.
handle_method_open_mkcol(c, f, r, path, is_miss, is_dir, is_file, size, r0) ==
    LET head_only == r.method = "HEAD" IN
    IF r.method \in {"GET", "HEAD"}
    THEN IF is_dir
         THEN IF c.render_try_index
              THEN IF c.allow_archive /\ "zip" \in r.query
                   THEN IF ~c.allow_archive THEN Done(status_not_found(r0), f)
                        ELSE handle_zip_dir(c, f, r, path, head_only, r0)
                   ELSE IF c.allow_search /\ "q" \in r.query
                   THEN handle_search_dir(c, f, r, path, head_only, r0)
                   ELSE handle_render_index(c, f, r, path, head_only, r0)
              ELSE IF c.render_index \/ c.render_spa
              THEN handle_render_index(c, f, r, path, head_only, r0)
              ELSE IF "zip" \in r.query
              THEN IF ~c.allow_archive THEN Done(status_not_found(r0), f)
                   ELSE handle_zip_dir(c, f, r, path, head_only, r0)
              ELSE IF c.allow_search /\ "q" \in r.query
              THEN handle_search_dir(c, f, r, path, head_only, r0)
              ELSE handle_ls_dir(c, f, r, path, TRUE, head_only, r0)
         ELSE IF is_file
         THEN IF "edit" \in r.query
              THEN handle_edit_file(c, f, r, path, head_only, r0)
              ELSE handle_send_file(c, f, r, path, head_only, r0)
         ELSE IF c.render_spa THEN handle_render_spa(c, f, r, path, head_only, r0)
         ELSE IF c.allow_upload /\ Last(r.path) = "/"
         THEN handle_ls_dir(c, f, r, path, FALSE, head_only, r0)
         ELSE Done(status_not_found(r0), f)
    ELSE IF r.method = "OPTIONS" THEN Done(set_webdav_headers(r0), f)
    ELSE IF r.method = "PUT"
    THEN IF ~c.allow_upload \/ (~c.allow_delete /\ is_file /\ size > 0)
         THEN Done(status_forbid(r0), f)
         ELSE handle_upload(c, f, r, path, r0)
    ELSE IF r.method = "DELETE"
    THEN IF ~c.allow_delete THEN Done(status_forbid(r0), f)
         ELSE IF ~is_miss THEN handle_delete(c, f, r, path, is_dir, r0)
         ELSE Done(status_not_found(r0), f)
    ELSE IF r.method = "PROPFIND"
    THEN IF is_dir
         THEN handle_propfind_dir(c, f, r, path,
                 IF indexonly(r.access) THEN [perm |-> "ReadOnly", child_paths |-> {}]
                 ELSE r.access, r0)
         ELSE IF is_file THEN handle_propfind_file(c, f, r, path, r0)
         ELSE Done(status_not_found(r0), f)
    ELSE IF r.method = "PROPPATCH"
    THEN IF is_file THEN handle_proppatch(c, f, r, r0)
         ELSE Done(status_not_found(r0), f)
    ELSE IF r.method = "MKCOL"
    THEN IF ~is_miss
         THEN Done([r0 EXCEPT !.status = 405, !.body = "Already exists"], f)
         ELSE handle_mkcol(c, f, r, path, r0)
    ELSE IF r.method = "COPY"
    THEN IF ~c.allow_upload THEN Done(status_forbid(r0), f)
         ELSE IF is_miss THEN Done(status_not_found(r0), f)
         ELSE handle_copy(c, f, r, path, r0)
    ELSE IF r.method = "MOVE"
    THEN IF ~c.allow_upload \/ ~c.allow_delete THEN Done(status_forbid(r0), f)
         ELSE IF is_miss THEN Done(status_not_found(r0), f)
         ELSE handle_move(c, f, r, path, r0)
    ELSE IF r.method = "LOCK"
    THEN IF is_file THEN handle_lock(c, f, r, r0)
         ELSE Done(status_not_found(r0), f)
    ELSE IF r.method = "UNLOCK"
    THEN IF is_miss THEN Done(status_not_found(r0), f) ELSE Done(r0, f)
    ELSE Done([r0 EXCEPT !.status = 405], f)

\* Server::handle, from the method match on: the target was probed as
\* (is_miss, is_dir, is_file, size).
handle_method(c, f, r, path, is_miss, is_dir, is_file, size, r0) ==
    LET head_only == r.method = "HEAD" IN
    IF r.method \in {"GET", "HEAD"}
    THEN IF is_dir
         THEN IF c.render_try_index
              THEN IF c.allow_archive /\ "zip" \in r.query
                   THEN IF ~c.allow_archive THEN Done(status_not_found(r0), f)
                        ELSE handle_zip_dir(c, f, r, path, head_only, r0)
                   ELSE IF c.allow_search /\ "q" \in r.query
                   THEN handle_search_dir(c, f, r, path, head_only, r0)
                   ELSE handle_render_index(c, f, r, path, head_only, r0)
              ELSE IF c.render_index \/ c.render_spa
              THEN handle_render_index(c, f, r, path, head_only, r0)
              ELSE IF "zip" \in r.query
              THEN IF ~c.allow_archive THEN Done(status_not_found(r0), f)
                   ELSE handle_zip_dir(c, f, r, path, head_only, r0)
              ELSE IF c.allow_search /\ "q" \in r.query
              THEN handle_search_dir(c, f, r, path, head_only, r0)
              ELSE handle_ls_dir(c, f, r, path, TRUE, head_only, r0)
         ELSE IF is_file
         THEN IF "edit" \in r.query
              THEN handle_edit_file(c, f, r, path, head_only, r0)
              ELSE handle_send_file(c, f, r, path, head_only, r0)
         ELSE IF c.render_spa THEN handle_render_spa(c, f, r, path, head_only, r0)
         ELSE IF c.allow_upload /\ Last(r.path) = "/"
         THEN handle_ls_dir(c, f, r, path, FALSE, head_only, r0)
         ELSE Done(status_not_found(r0), f)
    ELSE IF r.method = "OPTIONS" THEN Done(set_webdav_headers(r0), f)
    ELSE IF r.method = "PUT"
    THEN IF ~c.allow_upload \/ (~c.allow_delete /\ is_file /\ size > 0)
         THEN Done(status_forbid(r0), f)
         ELSE handle_upload(c, f, r, path, r0)
    ELSE IF r.method = "DELETE"
    THEN IF ~c.allow_delete THEN Done(status_forbid(r0), f)
         ELSE IF ~is_miss THEN handle_delete(c, f, r, path, is_dir, r0)
         ELSE Done(status_not_found(r0), f)
    ELSE IF r.method = "PROPFIND"
    THEN IF is_dir
         THEN handle_propfind_dir(c, f, r, path,
                 IF indexonly(r.access) THEN [perm |-> "ReadOnly", child_paths |-> {}]
                 ELSE r.access, r0)
         ELSE IF is_file THEN handle_propfind_file(c, f, r, path, r0)
         ELSE Done(status_not_found(r0), f)
    ELSE IF r.method = "PROPPATCH"
    THEN IF is_file THEN handle_proppatch(c, f, r, r0)
         ELSE Done(status_not_found(r0), f)
    ELSE IF r.method = "MKCOL"
    THEN IF ~c.allow_upload THEN Done(status_forbid(r0), f)
         ELSE IF ~is_miss
         THEN Done([r0 EXCEPT !.status = 405, !.body = "Already exists"], f)
         ELSE handle_mkcol(c, f, r, path, r0)
    ELSE IF r.method = "COPY"
    THEN IF ~c.allow_upload THEN Done(status_forbid(r0), f)
         ELSE IF is_miss THEN Done(status_not_found(r0), f)
         ELSE handle_copy(c, f, r, path, r0)
    ELSE IF r.method = "MOVE"
    THEN IF ~c.allow_upload \/ ~c.allow_delete THEN Done(status_forbid(r0), f)
         ELSE IF is_miss THEN Done(status_not_found(r0), f)
         ELSE handle_move(c, f, r, path, r0)
    ELSE IF r.method = "LOCK"
    THEN IF is_file THEN handle_lock(c, f, r, r0)
         ELSE Done(status_not_found(r0), f)
    ELSE IF r.method = "UNLOCK"
    THEN IF is_miss THEN Done(status_not_found(r0), f) ELSE Done(r0, f)
    ELSE Done([r0 EXCEPT !.status = 405], f)

\* Whether the request is served by the asset fast path of handle.
AssetFastPath(c, r) == r.method = "GET" /\ IsPrefix(assets_prefix(c), r.path)

\* A handle that goes on to the method match in single-file mode as well.
handle_without_single_file(c, f, r) ==
    LET r0 == DefaultRes
        rel == resolve_path(c, r.path)
        path == join_path(c, rel.v)
        meta == Metadata(f, path)
        is_miss == ~meta.ok
        is_dir == meta.ok /\ meta.v.kind = "dir"
        is_file == meta.ok /\ meta.v.kind = "file"
        size == IF meta.ok THEN meta.v.size ELSE 0
    IN  IF AssetFastPath(c, r)
        THEN handle_assets(c, f, r, strip_prefix(r.path, assets_prefix(c)).v, r0)
        ELSE IF ~rel.ok THEN Done(status_forbid(r0), f)
        ELSE IF r.guard = "Unauth" THEN Done(auth_reject(r0), f)
        ELSE IF r.guard = "Denied" THEN Done(status_forbid(r0), f)
        ELSE IF r.method = "WRITEABLE" THEN Done(r0, f)
        ELSE IF ~c.allow_symlink /\ ~is_miss /\ ~is_root_contained(c, f, path)
        THEN Done(status_not_found(r0), f)
        ELSE handle_method(c, f, r, path, is_miss, is_dir, is_file, size, r0)

\* Server::handle, where fp is the filesystem when fs::metadata probes the
\* target, fc the filesystem when is_root_contained canonicalizes it, and f
\* the filesystem that the handler finds.
handle_probed(c, fp, fc, f, r) ==
    LET r0 == DefaultRes
        rel == resolve_path(c, r.path)
        path == join_path(c, rel.v)
        meta == Metadata(fp, path)
        is_miss == ~meta.ok
        is_dir == meta.ok /\ meta.v.kind = "dir"
        is_file == meta.ok /\ meta.v.kind = "file"
        size == IF meta.ok THEN meta.v.size ELSE 0
    IN  IF AssetFastPath(c, r)
        THEN handle_assets(c, f, r, strip_prefix(r.path, assets_prefix(c)).v, r0)
        ELSE IF ~rel.ok THEN Done(status_forbid(r0), f)
        ELSE IF r.guard = "Unauth" THEN Done(auth_reject(r0), f)
        ELSE IF r.guard = "Denied" THEN Done(status_forbid(r0), f)
        ELSE IF r.method = "WRITEABLE" THEN Done(r0, f)
        ELSE IF c.path_is_file
        THEN IF r.path \in single_file_req_paths(c)
             THEN handle_send_file(c, f, r, c.path, r.method = "HEAD", r0)
             ELSE Done(status_not_found(r0), f)
        ELSE IF ~c.allow_symlink /\ ~is_miss /\ ~is_root_contained(c, fc, path)
        THEN Done(status_not_found(r0), f)
        ELSE handle_method(c, f, r, path, is_miss, is_dir, is_file, size, r0)

\* Server::handle on a filesystem that no other request changes meanwhile.
handle(c, f, r) == handle_probed(c, f, f, f, r)

\* add_cors
add_cors(r0) ==
    [r0 EXCEPT !.headers = @ \cup {"Access-Control-Allow-Origin",
                                   "Access-Control-Allow-Credentials",
                                   "Access-Control-Allow-Methods",
                                   "Access-Control-Allow-Headers",
                                   "Access-Control-Expose-Headers"}]

\* A call that hands the response of a failed handle on as it stands.
call_result_unmapped(c, r, h) ==
    [res |-> IF h.panic THEN h.res
             ELSE IF c.enable_cors THEN add_cors(h.res) ELSE h.res,
     fs |-> h.fs,
     log |-> IF h.panic THEN <<>>
             ELSE IF h.err \/ ~IsPrefix(assets_prefix(c), r.path)
             THEN <<[status |-> h.res.status, err |-> h.err]>>
             ELSE <<>>]

\* Server::call after handle returned h: an Err becomes an empty 500, CORS
\* headers are added when enabled, and the request is logged unless it was a
\* successfully served asset.
call_result(c, r, h) ==
    [res |-> IF h.panic THEN h.res
             ELSE IF c.enable_cors
             THEN add_cors(IF h.err THEN [DefaultRes EXCEPT !.status = 500] ELSE h.res)
             ELSE IF h.err THEN [DefaultRes EXCEPT !.status = 500] ELSE h.res,
     fs |-> h.fs,
     log |-> IF h.panic THEN <<>>
             ELSE IF h.err \/ ~IsPrefix(assets_prefix(c), r.path)
             THEN <<[status |-> IF h.err THEN 500 ELSE h.res.status, err |-> h.err]>>
             ELSE <<>>]

\* Server::call: the response, the filesystem left, the access-log records.
call(c, f, r) == call_result(c, r, handle(c, f, r))

-----------------------------------------------------------------------------
(* Configurations, filesystems and requests of the model                   *)

RootPath == << <<"srv">> >>

Outside == << <<"out">> >>

\* Args of a server on RootPath with every feature off.
Cfg0 ==
    [path |-> RootPath, uri_prefix |-> <<"/">>, path_prefix |-> <<"/">>,
     path_is_file |-> FALSE, allow_upload |-> FALSE, allow_delete |-> FALSE,
     allow_search |-> FALSE, allow_archive |-> FALSE, render_index |-> FALSE,
     render_spa |-> FALSE, render_try_index |-> FALSE, allow_symlink |-> FALSE,
     hidden |-> {}, posix_hidden |-> FALSE, enable_cors |-> FALSE,
     assets_path |-> None]

\* Args of a server whose URIs start with /p/, with upload and delete allowed.
CfgPrefixed ==
    [Cfg0 EXCEPT !.uri_prefix = <<"/", "p", "/">>, !.path_prefix = <<"/", "p">>,
                 !.allow_upload = TRUE, !.allow_delete = TRUE]

\* Args of a server under /p/ that serves the single file /srv/a.
CfgSingle ==
    [CfgPrefixed EXCEPT !.path = RootPath \o << <<"a">> >>, !.path_is_file = TRUE]

\* /srv holds a file a (1 byte), an empty file e, a directory d with an
\* index.html, and a symlink l to the directory /out, which lies outside the
\* root and holds a file s.
InitFs ==
    LET P(x) == RootPath \o x IN
    (P(<<>>) :> DirNode) @@
    (P(<< <<"a">> >>) :> FileNode(1)) @@
    (P(<< <<"e">> >>) :> FileNode(0)) @@
    (P(<< <<"d">> >>) :> DirNode) @@
    (P(<< <<"d">>, INDEX_NAME >>) :> FileNode(1)) @@
    (P(<< <<"l">> >>) :> LinkNode(Outside)) @@
    (Outside :> DirNode) @@
    (Outside \o << <<"s">> >> :> FileNode(1))

FullAccess == [perm |-> "ReadWrite", child_paths |-> {}]

NoDest == [kind |-> "absent", path |-> <<>>, guard |-> "Granted"]

Dest(p, g) == [kind |-> "uri", path |-> p, guard |-> g]

NoBody == [size |-> 0, ok |-> TRUE]

\* A request: the method, the raw path of the URI, the keys of the query and
\* the value of q, the guard's answer for the path (guard) with the
\* AccessPaths it grants (access), the Destination header with the guard's
\* answer for it, the body, the Depth header, and env: whether the standard
\* library of the build ignores ENOENT from the last rmdir of remove_dir_all.
\* now is the reading of the clock when the request is served, checks whether
\* the build panics on integer overflow; if_none_match, if_modified_since,
\* if_range and range are the headers of these names.  stop tells after how
\* many entries of a walk the shutdown flag reads false, rev the order in
\* which directories yield their entries.
NoStop == [ok |-> FALSE, v |-> 0]

Req(m, p, g) ==
    [method |-> m, path |-> p, guard |-> g, query |-> {}, q |-> <<>>,
     access |-> FullAccess, dest |-> NoDest, body |-> NoBody,
     depth |-> "absent", env |-> FALSE, now |-> 0, checks |-> FALSE,
     stop |-> NoStop, rev |-> FALSE,
     if_none_match |-> NoHeader, if_modified_since |-> NoHeader,
     if_range |-> NoHeader, range |-> NoHeader]

NoReq == Req("", <<>>, "")

Methods ==
    {"GET", "HEAD", "OPTIONS", "PUT", "DELETE", "PROPFIND", "PROPPATCH", "MKCOL",
     "COPY", "MOVE", "LOCK", "UNLOCK", "WRITEABLE", "PATCH"}

GuardOutcomes == {"Unauth", "Denied", "Granted"}

RawPaths ==
    { <<"/">>,
      <<"/", "a">>,
      <<"/", "e">>,
      <<"/", "d">>,
      <<"/", "n">>,
      <<"/", "n", "/", "m">>,
      <<"/", "a", "/", "n">>,
      <<"/", "l">>,
      <<"/", "l", "/", "s">>,
      <<"/", "l", "/", "n">>,
      <<"/", ".", ".">>,
      <<"/", "d", "/", ".", ".">>,
      <<"/", "%2F", "out", "/", "s">>,
      <<"/", "%2E", "%2E", "/", "out", "/", "n">>,
      <<"/", "__dufs_v0_", "index", ".", "js">>,
      <<"/", "%FF">> }

Dests ==
    { NoDest,
      [kind |-> "bad", path |-> <<>>, guard |-> "Granted"],
      Dest(<<"/", "n">>, "Granted"),
      Dest(<<"/", "n">>, "Denied"),
      Dest(<<"/", "a">>, "Granted"),
      Dest(<<"/", "d", "/", "m">>, "Granted"),
      Dest(<<"/", "%FF">>, "Granted") }

\* Paths and Destinations for the server under /p/.
PrefixedPaths == { <<"/", "p", "/", "a">>, <<"/", "p", "/", "d">> }

\* Paths for the server of a single file: the prefix with and without its
\* trailing slash, the file, the file with a trailing slash, another name.
SinglePaths ==
    { <<"/", "p", "/">>, <<"/", "p">>, <<"/", "p", "/", "a">>,
      <<"/", "p", "/", "a", "/">>, <<"/", "p", "/", "d">> }

PrefixedDests ==
    { NoDest,
      Dest(<<"/", "p", "/", "n">>, "Granted"),
      Dest(<<"/", "p", "/", "n">>, "Denied"),
      Dest(<<"/", "n">>, "Granted"),
      Dest(<<"/", "n">>, "Denied") }

Bodies == [size : 0..MaxSize, ok : {TRUE}] \cup {[size |-> 0, ok |-> FALSE]}

\* The requests of Spec: every method on every path under every answer of
\* the guard, PUT with every body, DELETE under both builds, COPY and MOVE
\* with every Destination, COPY and MOVE under the prefix /p/, and every
\* method on the paths of the single-file server.
Requests ==
    {Req(m, p, g) : m \in Methods, p \in RawPaths, g \in GuardOutcomes}
    \cup {[Req("PUT", p, "Granted") EXCEPT !.body = b] : p \in RawPaths, b \in Bodies}
    \cup {[Req("DELETE", p, "Granted") EXCEPT !.env = TRUE] : p \in RawPaths}
    \cup {[Req(m, p, "Granted") EXCEPT !.dest = d] :
             m \in {"COPY", "MOVE"}, p \in RawPaths, d \in Dests}
    \cup {[Req(m, p, "Granted") EXCEPT !.dest = d] :
             m \in {"COPY", "MOVE"}, p \in PrefixedPaths, d \in PrefixedDests}
    \cup {Req(m, p, "Granted") : m \in Methods, p \in SinglePaths}

-----------------------------------------------------------------------------
(* The state machine                                                       *)

Idle ==
    /\ pc = "idle"
    /\ req = NoReq
    /\ res = DefaultRes
    /\ log = <<>>
    /\ fs0 = fs
    /\ fs1 = fs

Init ==
    /\ cfg \in {[Cfg0 EXCEPT !.allow_upload = u, !.allow_delete = d, !.allow_symlink = s] :
                   u \in BOOLEAN, d \in BOOLEAN, s \in BOOLEAN}
               \cup {CfgPrefixed, CfgSingle}
    /\ fs = InitFs
    /\ nreq = 0
    /\ Idle

\* Server::call answers request r.
Call(r) ==
    /\ pc = "idle"
    /\ nreq < MaxReqs
    /\ \E out \in {call(cfg, fs, r)} :
         /\ res' = out.res
         /\ fs' = out.fs
         /\ log' = out.log
    /\ req' = r
    /\ fs0' = fs
    /\ fs1' = fs
    /\ pc' = "done"
    /\ nreq' = nreq + 1
    /\ UNCHANGED cfg

\* The HTTP runtime takes the response; the server waits for the next
\* request.
Return ==
    /\ pc = "done"
    /\ pc' = "idle"
    /\ req' = NoReq
    /\ res' = DefaultRes
    /\ log' = <<>>
    /\ fs0' = fs
    /\ fs1' = fs
    /\ UNCHANGED <<cfg, fs, nreq>>

Serve == \E r \in Requests : Call(r)

Next == Serve \/ Return

Spec == Init /\ [][Next]_vars

-----------------------------------------------------------------------------
(* The server under its rendering, archive and search options              *)

\* InitFs with a symlink l2 to the directory d, which stays inside the root.
ReadFs ==
    (RootPath \o << <<"l", "2">> >> :> LinkNode(RootPath \o << <<"d">> >>)) @@ InitFs

\* ReadFs with an index.html in the root directory.
ReadFsIndex == (RootPath \o << INDEX_NAME >> :> FileNode(1)) @@ ReadFs

\* ReadFs whose root index.html is a symlink to the file s outside the root.
ReadFsLinkedIndex ==
    (RootPath \o << INDEX_NAME >> :> LinkNode(Outside \o << <<"s">> >>)) @@ ReadFs

ReadPaths ==
    { <<"/">>,
      <<"/", "a">>,
      <<"/", "d">>,
      <<"/", "d", "/">>,
      <<"/", "n">>,
      <<"/", "n", "/">>,
      <<"/", "n", ".", "x">>,
      <<"/", "n", ".", "x", "/">>,
      <<"/", "l">>,
      <<"/", "l", "/", "s">>,
      <<"/", "l", "2">>,
      <<"/", "%2F", "out", "/", "s">>,
      <<"/", "%2F", "out">>,
      <<"/", "%2F", "out", "/", "n", "/">>,
      <<"/", "d", "/", ".", ".">> }

\* The paths that leave the root through the symlink l or an absolute path.
EscapingPaths ==
    { <<"/", "l">>, <<"/", "l", "/", "s">>, <<"/", "%2F", "out", "/", "s">> }

\* The keys of a query string, with the value of q.
Queries ==
    { [query |-> {}, q |-> <<>>],
      [query |-> {"zip"}, q |-> <<>>],
      [query |-> {"q"}, q |-> <<"l">>],
      [query |-> {"q"}, q |-> <<>>],
      [query |-> {"zip", "q"}, q |-> <<"l">>],
      [query |-> {"edit"}, q |-> <<>>],
      [query |-> {"simple"}, q |-> <<>>] }

\* The Depth header: absent, a number, or a word such as infinity.
DepthHeaders == {"absent", "0", "1", "2", "bad"}

\* The requests of SpecRead: GET and HEAD with every query, PROPFIND with
\* every Depth, and every method on the paths that leave the root.
ReadRequests ==
    {[Req(m, p, "Granted") EXCEPT !.query = k.query, !.q = k.q] :
        m \in {"GET", "HEAD"}, p \in ReadPaths, k \in Queries}
    \cup {[Req("PROPFIND", p, "Granted") EXCEPT !.depth = d] :
             p \in ReadPaths, d \in DepthHeaders}
    \cup {Req(m, p, "Granted") : m \in Methods, p \in EscapingPaths}

InitRead ==
    /\ cfg \in {[Cfg0 EXCEPT !.render_try_index = t, !.render_index = i,
                             !.render_spa = a, !.allow_archive = z,
                             !.allow_search = q, !.allow_upload = u,
                             !.allow_symlink = s] :
                   t \in BOOLEAN, i \in BOOLEAN, a \in BOOLEAN, z \in BOOLEAN,
                   q \in BOOLEAN, u \in BOOLEAN, s \in BOOLEAN}
    /\ fs \in {ReadFs, ReadFsIndex, ReadFsLinkedIndex}
    /\ nreq = 0
    /\ Idle

ServeRead == \E r \in ReadRequests : Call(r)

NextRead == ServeRead \/ Return

SpecRead == InitRead /\ [][NextRead]_vars

-----------------------------------------------------------------------------
(* The server before WebDAV clients and callers of partial access          *)

\* ReadFs with a file .h in the root directory and a symlink x whose target
\* does not exist.
DavFs ==
    (RootPath \o << <<".", "h">> >> :> FileNode(1)) @@
    (RootPath \o << <<"x">> >> :> LinkNode(RootPath \o << <<"none">> >>)) @@ ReadFs

\* What the guard was configured to grant the caller: subtrees of the root,
\* as relative paths, each with a permission.
Grant(p, perm) == [path |-> p, perm |-> perm]

DavAuths ==
    { {Grant(<<>>, "ReadWrite")},
      {Grant(<<>>, "ReadOnly")},
      {Grant(<< <<"d">> >>, "ReadOnly")},
      {Grant(<< <<"a">> >>, "ReadOnly"), Grant(<< <<"x">> >>, "ReadOnly"),
       Grant(<< <<"d">>, INDEX_NAME >>, "ReadWrite")} }

\* AccessControl::guard for an authenticated caller: the view of the
\* subtree that covers the path, or IndexOnly with the names that lead to
\* the caller's subtrees when the path is an ancestor of them, or denied.
\* Methods other than GET, HEAD, OPTIONS and PROPFIND need ReadWrite.
guard(auth, rel, method) ==
    LET P == Components(rel)
        usable == IF method \in {"GET", "HEAD", "OPTIONS", "PROPFIND"} THEN auth
                  ELSE {g \in auth : g.perm = "ReadWrite"}
        covering == {g \in usable : IsPrefix(g.path, P)}
        below == {g \in usable : IsPrefix(P, g.path)}
    IN  IF covering # {}
        THEN [outcome |-> "Granted",
              access |-> [perm |-> IF \E g \in covering : g.perm = "ReadWrite"
                                   THEN "ReadWrite" ELSE "ReadOnly",
                          child_paths |-> {}]]
        ELSE IF below # {}
        THEN [outcome |-> "Granted",
              access |-> [perm |-> "IndexOnly",
                          child_paths |-> {g.path[Len(P) + 1] : g \in below}]]
        ELSE [outcome |-> "Denied", access |-> FullAccess]

DavPaths ==
    { <<"/">>,
      <<"/", "a">>,
      <<"/", "d">>,
      <<"/", "d", "/", "index", ".", "html">>,
      <<"/", "n">>,
      <<"/", "l">>,
      <<"/", "l", "2">>,
      <<"/", "x">>,
      <<"/", "d", "/", ".", ".">>,
      <<"/", "%2F", "out">> }

\* The request of a caller with the grants auth, as the guard answers it.
DavReq(m, p, auth, d) ==
    [Req(m, p, guard(auth, resolve_path(Cfg0, p).v, m).outcome)
        EXCEPT !.access = guard(auth, resolve_path(Cfg0, p).v, m).access,
               !.depth = d]

\* The requests of SpecDav: GET, HEAD and PROPFIND with every Depth, from
\* every caller.
DavRequests ==
    {DavReq(m, p, auth, d) :
        m \in {"GET", "HEAD", "PROPFIND"}, p \in DavPaths, auth \in DavAuths,
        d \in DepthHeaders}

HiddenPatterns == { {}, {<<"a">>}, {<<"d", "/">>} }

InitDav ==
    /\ cfg \in {[Cfg0 EXCEPT !.allow_symlink = s, !.posix_hidden = h, !.hidden = g] :
                   s \in BOOLEAN, h \in BOOLEAN, g \in HiddenPatterns}
    /\ fs = DavFs
    /\ nreq = 0
    /\ Idle

ServeDav == \E r \in DavRequests : Call(r)

NextDav == ServeDav \/ Return

SpecDav == InitDav /\ [][NextDav]_vars

-----------------------------------------------------------------------------
(* The server before clients that revalidate and fetch ranges              *)

\* InitFs with a file b of 3 bytes.
SendFs == (RootPath \o << <<"b">> >> :> FileNode(3)) @@ InitFs

SendPaths == { <<"/", "b">>, <<"/", "a">>, <<"/", "e">>, <<"/", "n">> }

\* The entity tags that a file of SendFs can come to have.
ETags == {ETag(ts, size) : ts \in 0..to_timestamp(MaxTime), size \in {0, 1, 3}}

IfNoneMatchHeaders ==
    {NoHeader, [kind |-> "any"]} \cup {[kind |-> "tags", tags |-> {e}] : e \in ETags}

IfModifiedSinceHeaders ==
    {NoHeader} \cup {[kind |-> "date", sec |-> n] : n \in 0..HttpDate(MaxTime)}

IfRangeHeaders ==
    {NoHeader, [kind |-> "date", sec |-> 0],
     [kind |-> "etag", tag |-> ETag(0, 3)], [kind |-> "etag", tag |-> ETag(1, 3)]}

Bytes(spec) == [kind |-> "range", units |-> "bytes", spec |-> spec]

\* Range headers: within the file, past its end, open-ended, reversed, a
\* suffix, several ranges, another unit.
RangeHeaders ==
    { Bytes(<<"0", "-", "0">>), Bytes(<<"0", "-", "2">>), Bytes(<<"1", "-", "2">>),
      Bytes(<<"1", "-", "1">>), Bytes(<<"1", "-">>), Bytes(<<"0", "-">>),
      Bytes(<<"2", "-", "5">>), Bytes(<<"0", "-", "3">>), Bytes(<<"3", "-", "5">>),
      Bytes(<<"3", "-">>), Bytes(<<"2", "-", "1">>), Bytes(<<"-", "2">>),
      Bytes(<<"0", "-", "0", ",", "2", "-", "2">>),
      [kind |-> "range", units |-> "items", spec |-> <<"0", "-", "1">>] }

\* The requests of SpecSend: PUT of 1 or 3 bytes at every time, GET and HEAD
\* with every pair of conditional headers, and with every Range and If-Range
\* on either build.
SendRequests ==
    {[Req("PUT", p, "Granted") EXCEPT !.body = [size |-> n, ok |-> TRUE], !.now = t] :
        p \in {<<"/", "b">>, <<"/", "a">>}, n \in {1, 3}, t \in 0..MaxTime}
    \cup {[Req(m, p, "Granted") EXCEPT !.if_none_match = i, !.if_modified_since = d] :
             m \in {"GET", "HEAD"}, p \in SendPaths,
             i \in IfNoneMatchHeaders, d \in IfModifiedSinceHeaders}
    \cup {[Req(m, p, "Granted") EXCEPT !.range = g, !.if_range = i, !.checks = k] :
             m \in {"GET", "HEAD"}, p \in SendPaths,
             g \in RangeHeaders, i \in IfRangeHeaders, k \in BOOLEAN}
    \cup {[Req("GET", <<"/", "b">>, "Granted") EXCEPT !.range = g, !.if_none_match = i] :
             g \in RangeHeaders, i \in IfNoneMatchHeaders}

InitSend ==
    /\ cfg \in {[Cfg0 EXCEPT !.allow_upload = TRUE, !.allow_delete = d] : d \in BOOLEAN}
    /\ fs = SendFs
    /\ nreq = 0
    /\ Idle

ServeSend == \E r \in SendRequests : Call(r)

NextSend == ServeSend \/ Return

SpecSend == InitSend /\ [][NextSend]_vars

-----------------------------------------------------------------------------
(* The server with a Hidden Filter, before listing, search and archive     *)

\* The most entries a walk handles before the shutdown flag reads false.
MaxStop == 3

\* /srv holds a file g; the directories .g and t, each with a file g; the
\* symlinks k and .k to the directory t; the symlinks s and .s to the file
\* g; and the symlink l to the directory /out outside the root.
HiddenFs ==
    LET P(x) == RootPath \o x IN
    (P(<<>>) :> DirNode) @@
    (P(<< <<"g">> >>) :> FileNode(1)) @@
    (P(<< <<".", "g">> >>) :> DirNode) @@
    (P(<< <<".", "g">>, <<"g">> >>) :> FileNode(1)) @@
    (P(<< <<"t">> >>) :> DirNode) @@
    (P(<< <<"t">>, <<"g">> >>) :> FileNode(1)) @@
    (P(<< <<"k">> >>) :> LinkNode(P(<< <<"t">> >>))) @@
    (P(<< <<".", "k">> >>) :> LinkNode(P(<< <<"t">> >>))) @@
    (P(<< <<"s">> >>) :> LinkNode(P(<< <<"g">> >>))) @@
    (P(<< <<".", "s">> >>) :> LinkNode(P(<< <<"g">> >>))) @@
    (P(<< <<"l">> >>) :> LinkNode(Outside)) @@
    (Outside :> DirNode) @@
    (Outside \o << <<"s">> >> :> FileNode(1))

\* --hidden: nothing, a name, or a name for directories only.
HiddenGlobs ==
    { {} } \cup { {<<n>>} : n \in {"g", "t", "k", "s"} }
           \cup { {<<n, "/">>} : n \in {"g", "t", "k", "s"} }

HiddenDirs == { <<"/">>, <<"/", "t">>, <<"/", ".", "g">>, <<"/", "k">> }

HiddenTargets ==
    { <<"/", "g">>, <<"/", ".", "g">>, <<"/", ".", "g", "/", "g">>, <<"/", "t">>,
      <<"/", "t", "/", "g">>, <<"/", "k">>, <<"/", ".", "k">>, <<"/", "s">>,
      <<"/", ".", "s">> }

\* A caller who may read the whole tree, and one who may read /t, /.g and
\* /g only.
HiddenAccess ==
    { FullAccess,
      [perm |-> "IndexOnly", child_paths |-> { <<"t">>, <<".", "g">>, <<"g">> }] }

Stops == {NoStop} \cup {[ok |-> TRUE, v |-> n] : n \in 0..MaxStop}

\* The requests of SpecHidden: the listing of a directory by GET, HEAD and
\* PROPFIND; its archive and its search for a name, cut short or not; and
\* GET, HEAD and PROPFIND of each file and directory.
HiddenRequests ==
    {Req(m, p, "Granted") : m \in {"GET", "HEAD"}, p \in HiddenDirs \cup HiddenTargets}
    \cup {[Req("PROPFIND", p, "Granted") EXCEPT !.depth = d] :
             p \in HiddenDirs \cup HiddenTargets, d \in {"0", "1"}}
    \cup {[Req(m, <<"/">>, "Granted") EXCEPT !.access = a, !.depth = "1"] :
             m \in {"GET", "PROPFIND"}, a \in HiddenAccess}
    \cup {[Req(m, p, "Granted") EXCEPT !.query = {"zip"}, !.stop = k, !.rev = v] :
             m \in {"GET", "HEAD"}, p \in HiddenDirs, k \in Stops, v \in BOOLEAN}
    \cup {[Req("GET", p, "Granted") EXCEPT !.query = {"q"}, !.q = <<n>>,
                                           !.stop = k, !.rev = v] :
             p \in HiddenDirs, n \in {"g", "t", "k", "s"}, k \in Stops, v \in BOOLEAN}
    \cup {[Req("GET", <<"/">>, "Granted") EXCEPT !.query = y.query, !.q = y.q, !.stop = k,
                                                 !.access = a] :
             y \in {[query |-> {"zip"}, q |-> <<>>], [query |-> {"q"}, q |-> <<"g">>]},
             k \in Stops, a \in HiddenAccess}

InitHidden ==
    /\ cfg \in {[Cfg0 EXCEPT !.allow_search = TRUE, !.allow_archive = TRUE,
                             !.allow_symlink = s, !.posix_hidden = h, !.hidden = g] :
                   s \in BOOLEAN, h \in BOOLEAN, g \in HiddenGlobs}
    /\ fs = HiddenFs
    /\ nreq = 0
    /\ Idle

ServeHidden == \E r \in HiddenRequests : Call(r)

NextHidden == ServeHidden \/ Return

SpecHidden == InitHidden /\ [][NextHidden]_vars

-----------------------------------------------------------------------------
(* The server before requests that overlap                                 *)

RacePaths == { <<"/", "a">>, <<"/", "e">>, <<"/", "d">> }

\* The requests whose steps others overlap.
RaceRequests == {Req(m, p, "Granted") : m \in {"GET", "HEAD", "DELETE"}, p \in RacePaths}

\* The requests that are served between two steps of another.
OverlappingRequests ==
    {Req("DELETE", p, "Granted") : p \in RacePaths}
    \cup {[Req("PUT", <<"/", "a">>, "Granted") EXCEPT !.body = [size |-> 1, ok |-> TRUE]]}

InitRace ==
    /\ cfg \in {[Cfg0 EXCEPT !.allow_upload = TRUE, !.allow_delete = TRUE,
                             !.allow_symlink = s] : s \in BOOLEAN}
    /\ fs = InitFs
    /\ nreq = 0
    /\ Idle

\* Server::handle probes the target of request r with fs::metadata.
Probe(r) ==
    /\ pc = "idle"
    /\ nreq < MaxReqs
    /\ req' = r
    /\ fs0' = fs
    /\ fs1' = fs
    /\ pc' = "probed"
    /\ nreq' = nreq + 1
    /\ UNCHANGED <<cfg, fs, res, log>>

\* Server::handle checks the symlink policy.
CheckSymlink ==
    /\ pc = "probed"
    /\ fs1' = fs
    /\ pc' = "checked"
    /\ UNCHANGED <<cfg, fs, req, res, log, fs0, nreq>>

\* A handler runs to its end: that of the request that was probed and
\* checked (own), which Server::call then answers, or the whole of another
\* request r that a second task of the runtime serves meanwhile.
RunHandler(r, own) ==
    /\ IF own THEN pc = "checked" ELSE pc \in {"probed", "checked"}
    /\ \E out \in {call_result(cfg, r,
                      handle_probed(cfg, IF own THEN fs0 ELSE fs,
                                    IF own THEN fs1 ELSE fs, fs, r))} :
         /\ fs' = out.fs
         /\ IF own
            THEN /\ res' = out.res
                 /\ log' = out.log
                 /\ pc' = "done"
                 /\ UNCHANGED <<cfg, req, fs0, fs1, nreq>>
            ELSE /\ fs' # fs
                 /\ UNCHANGED <<cfg, pc, req, res, log, fs0, fs1, nreq>>

ServeRace == \E r \in RaceRequests : Probe(r)

\* The handlers that may run next: the pending request's own, and those of
\* the requests served on other connections in the meantime.
Handlers ==
    \E t \in {[own |-> TRUE, r |-> req]}
               \cup {[own |-> FALSE, r |-> x] : x \in OverlappingRequests} :
        RunHandler(t.r, t.own)

NextRace == ServeRace \/ CheckSymlink \/ Handlers \/ Return

SpecRace == InitRace /\ [][NextRace]_vars

-----------------------------------------------------------------------------
(* The server under the path prefix /p                                     *)

\* Request paths at, under and beside the prefix /p: the prefix with and
\* without a trailing slash, paths under it, paths that start with the text
\* "/p" without a segment boundary after it, and paths that do not start
\* with it.
PrefixPaths ==
    { <<"/", "p">>,
      <<"/", "p", "/">>,
      <<"/", "p", "/", "a">>,
      <<"/", "p", "/", "n">>,
      <<"/", "p", "/", "d">>,
      <<"/", "p", "%2F", "a">>,
      <<"/", "p", "a">>,
      <<"/", "p", "n">>,
      <<"/", "p", "p", "/", "a">>,
      <<"/", "a">>,
      <<"/">> }

PrefixRequests ==
    {Req(m, p, "Granted") :
        m \in {"GET", "HEAD", "PUT", "DELETE", "MKCOL", "PROPFIND"}, p \in PrefixPaths}

InitPrefix ==
    /\ cfg \in {[CfgPrefixed EXCEPT !.allow_delete = d, !.allow_symlink = s] :
                   d \in BOOLEAN, s \in BOOLEAN}
    /\ fs = InitFs
    /\ nreq = 0
    /\ Idle

ServePrefix == \E r \in PrefixRequests : Call(r)

NextPrefix == ServePrefix \/ Return

SpecPrefix == InitPrefix /\ [][NextPrefix]_vars

-----------------------------------------------------------------------------
(* Uploads that other uploads overlap, deletions refused                   *)

\* The file a of one byte, the empty file e, the missing n.
PutPaths == { <<"/", "a">>, <<"/", "e">>, <<"/", "n">> }

\* The uploads whose steps others overlap: the body arrives whole, empty
\* or not, or fails to arrive; the clock reads 2.
PutRequests ==
    {[Req("PUT", p, "Granted") EXCEPT !.body = b, !.now = 2] :
        p \in PutPaths, b \in Bodies}

\* The uploads that are served between two steps of another, of one byte
\* each, when the clock reads 1.
OverlappingPuts ==
    {[Req("PUT", p, "Granted") EXCEPT !.body = [size |-> 1, ok |-> TRUE], !.now = 1] :
        p \in PutPaths}

InitPut ==
    /\ cfg \in {[Cfg0 EXCEPT !.allow_upload = TRUE, !.allow_delete = FALSE,
                             !.allow_symlink = s] : s \in BOOLEAN}
    /\ fs = InitFs
    /\ nreq = 0
    /\ Idle

ServePut == \E r \in PutRequests : Probe(r)

\* The handlers that may run next: the pending upload's own, and those of
\* the uploads served on other connections in the meantime.
PutHandlers ==
    \E t \in {[own |-> TRUE, r |-> req]}
               \cup {[own |-> FALSE, r |-> x] : x \in OverlappingPuts} :
        RunHandler(t.r, t.own)

NextPut == ServePut \/ CheckSymlink \/ PutHandlers \/ Return

SpecPut == InitPut /\ [][NextPut]_vars

-----------------------------------------------------------------------------
(* The server before a client that locks and unlocks                       *)

LockRequests ==
    {Req(m, p, "Granted") :
        m \in {"LOCK", "UNLOCK", "GET", "PUT", "DELETE", "PROPFIND"}, p \in RawPaths}

\* The HTTP runtime takes the response; the request answered, its response
\* and the filesystem it started from stay on record.
ReturnKept ==
    /\ pc = "done"
    /\ pc' = "idle"
    /\ UNCHANGED <<cfg, fs, req, res, log, fs0, fs1, nreq>>

ServeLock == \E r \in LockRequests : Call(r)

NextLock == ServeLock \/ ReturnKept

SpecLock == Init /\ [][NextLock]_vars

-----------------------------------------------------------------------------
(* What a response tells about the request it answers                      *)

\* The request was not served by the asset fast path and its path resolved:
\* the guard was asked.
AtGuard ==
    /\ pc = "done"
    /\ ~AssetFastPath(cfg, req)
    /\ resolve_path(cfg, req.path).ok

\* The filesystem path of the request: resolve_path, then join_path.
ReqTarget == join_path(cfg, resolve_path(cfg, req.path).v)

\* The guard let the request through and the target was probed.
AtProbe ==
    /\ AtGuard
    /\ req.guard = "Granted"
    /\ req.method # "WRITEABLE"
    /\ ~cfg.path_is_file

\* The probe of the target, on the filesystem the request found.
TargetMiss == ~Metadata(fs0, ReqTarget).ok

TargetIsDir == IsDirPath(fs0, ReqTarget)

TargetIsFile == IsFilePath(fs0, ReqTarget)

TargetSize == IF TargetMiss THEN 0 ELSE Metadata(fs0, ReqTarget).v.size

\* The request passed the symlink policy and reached the match on its method.
AtMethod ==
    /\ AtProbe
    /\ (cfg.allow_symlink \/ TargetMiss \/ is_root_contained(cfg, fs0, ReqTarget))

-----------------------------------------------------------------------------
(* Properties                                                              *)

\* C1: for every request whose path resolves and that reaches the join, the
\* path joined from resolve_path's result is a descendant of root_path,
\* whatever the method and whatever allow_symlink.
C1_TargetUnderRoot == AtProbe => IsDescendant(ReqTarget, cfg.path)

\* C3: outside the asset fast path the guard's answer decides alone: no
\* credential gives exactly the 401 of auth_reject, with WWW-Authenticate,
\* Allow and DAV; a denied user gives exactly the 403 of status_forbid; in
\* both cases the filesystem is left as it was, and only a granted request
\* gets any other response.
C3_GuardDecides ==
    AtGuard =>
        /\ req.guard = "Unauth" =>
              /\ res.status = 401
              /\ {"WWW-Authenticate", "Allow", "DAV"} \subseteq res.headers
              /\ res = auth_reject(DefaultRes)
              /\ fs = fs0
        /\ req.guard = "Denied" =>
              /\ res = status_forbid(DefaultRes)
              /\ fs = fs0
        /\ (res.action # "none" \/ res.status \notin {401, 403} \/ fs # fs0) =>
              req.guard = "Granted"

C3_Witness ==
    /\ AtGuard
    /\ req.guard = "Unauth"
    /\ req.method = "PUT"
    /\ cfg.allow_upload
    /\ TargetMiss
    /\ res.status = 401
    /\ fs = fs0

\* C4: call always hands back a response; when handle fails the response is
\* an empty 500 and the failure goes to the log, and when it succeeds the
\* response is the one handle built.
C4_ErrorsBecome500 ==
    pc = "done" =>
        IF handle(cfg, fs0, req).err
        THEN /\ res.status = 500
             /\ res.body = ""
             /\ res.headers = {}
             /\ log = <<[status |-> 500, err |-> TRUE]>>
        ELSE /\ res = handle(cfg, fs0, req).res
             /\ \A i \in 1..Len(log) : ~log[i].err

C4_Witness ==
    /\ pc = "done"
    /\ req.method = "MKCOL"
    /\ handle(cfg, fs0, req).err
    /\ res.status = 500
    /\ log # <<>>

\* The gate of PUT.
PutRefused ==
    ~cfg.allow_upload \/ (~cfg.allow_delete /\ TargetIsFile /\ TargetSize > 0)

\* C7: a PUT that reaches its handler is refused with 403, the filesystem
\* untouched, when upload is disabled or when the target is a non-empty file
\* and delete is disabled; otherwise handle_upload runs and its outcome is the
\* response; a successful upload answers 201, and a PUT onto an empty file
\* succeeds with delete disabled, the file then holding the body.
C7_PutGate ==
    (AtMethod /\ req.method = "PUT") =>
        IF PutRefused
        THEN res.status = 403 /\ fs = fs0
        ELSE LET up == handle_upload(cfg, fs0, req, ReqTarget, DefaultRes) IN
             /\ fs = up.fs
             /\ IF up.err THEN res.status = 500 ELSE res = up.res
             /\ res.action = "upload" => res.status = 201
             /\ (TargetIsFile /\ TargetSize = 0 /\ req.body.ok) =>
                   /\ res.status = 201
                   /\ Metadata(fs, ReqTarget) = Some(FileNodeAt(req.body.size, req.now))

C7_Witness ==
    /\ AtMethod
    /\ req.method = "PUT"
    /\ cfg.allow_upload
    /\ ~cfg.allow_delete
    /\ TargetIsFile
    /\ TargetSize = 0
    /\ req.body.size > 0
    /\ res.status = 201
    /\ fs # fs0

\* C8 as stated, for the paths that do not end in `..`: DELETE on a missing
\* target answers 404; on an existing target it answers 403 and changes
\* nothing when delete is disabled, and otherwise removes it and answers 204,
\* the target being missing afterwards.
C8_DeleteAsStated ==
    (AtMethod /\ req.method = "DELETE" /\ get_file_name(ReqTarget) # <<>>) =>
        IF TargetMiss THEN res.status = 404
        ELSE IF ~cfg.allow_delete THEN res.status = 403 /\ fs = fs0
        ELSE res.status = 204 /\ ~Metadata(fs, ReqTarget).ok

\* C8, amended: with delete disabled DELETE answers 403 and changes nothing
\* whether or not the target exists; with delete allowed a missing target
\* answers 404 and an existing one is removed: the answer is 204 and the
\* target is missing afterwards, except that for a target path ending in
\* `..` the answer may be 500 (the directory was emptied, its rmdir failed).
C8_Delete ==
    (AtMethod /\ req.method = "DELETE") =>
        IF ~cfg.allow_delete THEN res.status = 403 /\ fs = fs0
        ELSE IF TargetMiss THEN res.status = 404 /\ fs = fs0
        ELSE /\ res.status \in {204, 500}
             /\ res.status = 204 => ~Metadata(fs, ReqTarget).ok
             /\ res.status = 500 => Last(ReqTarget) = DotDot
             /\ Last(ReqTarget) # DotDot =>
                   \A q \in DOMAIN fs0 :
                       q \in DOMAIN fs <=> ~IsPrefix(LStat(fs0, ReqTarget).path, q)

C8_Witness ==
    /\ AtMethod
    /\ req.method = "DELETE"
    /\ cfg.allow_delete
    /\ TargetIsDir
    /\ Beneath(fs0, ReqTarget) # {}
    /\ res.status = 204
    /\ ~Metadata(fs, ReqTarget).ok

DestValid ==
    /\ req.dest.kind = "uri"
    /\ resolve_path(cfg, req.dest.path).ok
    /\ req.dest.guard = "Granted"

ReqDest == join_path(cfg, resolve_path(cfg, req.dest.path).v)

\* C10 as stated: COPY and MOVE of a directory (not a symlink to one) to a
\* valid Destination are answered 403 and change nothing.
C10_DirSourceAsStated ==
    (/\ AtMethod
     /\ req.method \in {"COPY", "MOVE"}
     /\ SymlinkMetadata(fs0, ReqTarget) = Some(DirNode)
     /\ DestValid) =>
        res.status = 403 /\ fs = fs0

\* C10, amended: COPY of a directory is answered 403 and changes nothing (500
\* when the source is a symlink to a directory); MOVE of a directory is
\* answered 403 and changes nothing only when upload or delete is disabled:
\* otherwise the directory is renamed to the Destination and the answer is
\* 204, or 500 when rename fails.
C10_DirSource ==
    (AtMethod /\ req.method \in {"COPY", "MOVE"} /\ TargetIsDir /\ DestValid) =>
        IF req.method = "COPY"
        THEN IF ~cfg.allow_upload THEN res.status = 403 /\ fs = fs0
             ELSE IF SymlinkMetadata(fs0, ReqTarget).v.kind = "dir"
             THEN res.status = 403 /\ fs = fs0
             ELSE res.status = 500
        ELSE IF ~cfg.allow_upload \/ ~cfg.allow_delete
             THEN res.status = 403 /\ fs = fs0
             ELSE /\ res.status \in {204, 500}
                  /\ res.status = 204 =>
                        /\ IsDirPath(fs, ReqDest)
                        /\ LStat(fs0, ReqTarget).path # LStat(fs, ReqDest).path =>
                              ~Metadata(fs, ReqTarget).ok

\* A directory with an entry in it was moved.
C10_Witness ==
    /\ AtMethod
    /\ req.method = "MOVE"
    /\ TargetIsDir
    /\ DestValid
    /\ Beneath(fs0, ReqTarget) # {}
    /\ res.status = 204
    /\ IsDirPath(fs, ReqDest)
    /\ ~Metadata(fs, ReqTarget).ok

\* An entry of a listing, a search result or a multistatus that is a symlink
\* leading outside the root.
EscapingItem(it) ==
    /\ it.path_type \in {"SymlinkDir", "SymlinkFile"}
    /\ ~is_root_contained(cfg, fs0, res.base \o it.name)

\* C2: with allow_symlink=false no response exposes a path whose canonical
\* form leaves the root: a request whose target exists and canonicalizes
\* outside the root is answered 404 and nothing else, the file whose bytes a
\* response carries lies under the root, and no listing, search result,
\* multistatus or archive holds an entry that is a symlink leading outside.
C2_NoEscapeExposed ==
    (pc = "done" /\ ~cfg.allow_symlink) =>
        /\ (AtProbe /\ ~TargetMiss /\ ~is_root_contained(cfg, fs0, ReqTarget)) =>
              res.status = 404 /\ res.action = "none" /\ fs = fs0
        /\ res.src.ok => starts_with(res.src.v, cfg.path)
        /\ res.action \in {"index", "search", "propfind_dir", "propfind_file"} =>
              \A it \in res.items : ~EscapingItem(it)
        /\ res.action = "zip" =>
              \A n \in res.items :
                  \/ SymlinkMetadata(fs0, res.base \o n).v.kind # "link"
                  \/ is_root_contained(cfg, fs0, res.base \o n)

\* What a response to GET or HEAD is.
DirIndex == Append(ReqTarget, INDEX_NAME)

RootIndex == Append(cfg.path, INDEX_NAME)

SendsFile(p) == res.status = 200 /\ res.action = "send_file" /\ res.src = Canonicalize(fs0, p)

Zips == res.status = 200 /\ res.action = "zip"

Searches == res.status = 200 /\ res.action = "search"

Lists == res.status = 200 /\ res.action = "index" /\ res.dir_exists

EmptyListing ==
    res.status = 200 /\ res.action = "index" /\ ~res.dir_exists /\ res.items = {}

NotFound == res.status = 404 /\ res.action = "none"

\* The page of a listing needs the directory's path relative to the root
\* (the plain text of a `simple` query does not), and an archive needs the
\* directory's name.
UnderRoot == starts_with(ReqTarget, cfg.path)

HasPage == UnderRoot \/ "simple" \in req.query

HasName == get_file_name(ReqTarget) # <<>>

\* C5 as stated: for GET and HEAD on an existing directory (one under the
\* root that has a name) the first row that matches decides, zip and search
\* coming before every rendering flag.
C5_DirRowsAsStated ==
    (AtMethod /\ req.method \in {"GET", "HEAD"} /\ TargetIsDir /\ UnderRoot /\ HasName) =>
        IF "zip" \in req.query /\ cfg.allow_archive THEN Zips
        ELSE IF "q" \in req.query /\ cfg.allow_search THEN Searches
        ELSE IF cfg.render_try_index
        THEN IF IsFilePath(fs0, DirIndex) THEN SendsFile(DirIndex) ELSE Lists
        ELSE IF cfg.render_index \/ cfg.render_spa
        THEN IF IsFilePath(fs0, DirIndex) THEN SendsFile(DirIndex) ELSE NotFound
        ELSE Lists

\* C5, amended: zip and search come before rendering only under
\* render_try_index; under render_index or render_spa alone the directory's
\* index.html is sent, or 404, whatever the query; with no rendering flag a
\* query with `zip` gives the archive, or 404 when archives are not allowed,
\* before search and the plain listing.  An archive of a directory without a
\* name, and a listing or search of a directory not under the root, fail
\* with 500.
C5_DirRows ==
    (AtMethod /\ req.method \in {"GET", "HEAD"} /\ TargetIsDir) =>
        LET zip == IF HasName THEN Zips ELSE res.status = 500
            search == IF HasPage THEN Searches ELSE res.status = 500
            list == IF HasPage THEN Lists ELSE res.status = 500
        IN  IF cfg.render_try_index
            THEN IF "zip" \in req.query /\ cfg.allow_archive THEN zip
                 ELSE IF "q" \in req.query /\ cfg.allow_search THEN search
                 ELSE IF IsFilePath(fs0, DirIndex) THEN SendsFile(DirIndex)
                 ELSE list
            ELSE IF cfg.render_index \/ cfg.render_spa
            THEN IF IsFilePath(fs0, DirIndex) THEN SendsFile(DirIndex) ELSE NotFound
            ELSE IF "zip" \in req.query
            THEN IF cfg.allow_archive THEN zip ELSE NotFound
            ELSE IF "q" \in req.query /\ cfg.allow_search THEN search
            ELSE list

\* Under render_index alone a query with zip, archives allowed, is answered
\* with the directory's index.html.
C5_Witness ==
    /\ AtMethod
    /\ req.method = "GET"
    /\ TargetIsDir
    /\ cfg.render_index
    /\ ~cfg.render_try_index
    /\ cfg.allow_archive
    /\ "zip" \in req.query
    /\ SendsFile(DirIndex)

\* C6 as stated: for GET and HEAD on a missing target (under the root, the
\* root holding an index.html), root index.html under render_spa when the
\* path has no extension; otherwise an empty listing when upload is allowed
\* and the request path ends with `/`; otherwise 404.
C6_MissingRowsAsStated ==
    (/\ AtMethod
     /\ req.method \in {"GET", "HEAD"}
     /\ TargetMiss
     /\ UnderRoot
     /\ IsFilePath(fs0, RootIndex)) =>
        IF cfg.render_spa /\ ~HasExtension(ReqTarget) THEN SendsFile(RootIndex)
        ELSE IF cfg.allow_upload /\ Last(req.path) = "/" THEN EmptyListing
        ELSE NotFound

\* C6, amended: under render_spa a path without extension gets the root
\* index.html, or 500 when the root has no such file, and a path with an
\* extension gets 404 whatever upload allows; without render_spa the empty
\* listing when upload is allowed and the request path ends with `/` (500
\* when the path is not under the root); otherwise 404.
C6_MissingRows ==
    (AtMethod /\ req.method \in {"GET", "HEAD"} /\ TargetMiss) =>
        IF cfg.render_spa
        THEN IF HasExtension(ReqTarget) THEN NotFound
             ELSE IF IsFilePath(fs0, RootIndex) THEN SendsFile(RootIndex)
             ELSE res.status = 500
        ELSE IF cfg.allow_upload /\ Last(req.path) = "/"
        THEN IF HasPage THEN EmptyListing ELSE res.status = 500
        ELSE NotFound

\* Under render_spa a missing path with an extension that ends with `/`, upload
\* allowed, is answered 404.
C6_Witness ==
    /\ AtMethod
    /\ req.method = "GET"
    /\ TargetMiss
    /\ cfg.render_spa
    /\ cfg.allow_upload
    /\ HasExtension(ReqTarget)
    /\ Last(req.path) = "/"
    /\ NotFound

\* The COPY or MOVE reached handle_copy or handle_move: the method is
\* allowed by the configuration and the source exists.
AtCopyMove ==
    /\ AtMethod
    /\ req.method \in {"COPY", "MOVE"}
    /\ cfg.allow_upload
    /\ req.method = "MOVE" => cfg.allow_delete
    /\ ~TargetMiss

\* The Destination header is absent or not a URI, or its path does not
\* decode or is not under the prefix.
DestBad == req.dest.kind # "uri" \/ ~resolve_path(cfg, req.dest.path).ok

\* C11: a COPY or MOVE that reaches its handler is answered 400 when the
\* Destination is missing, unparseable or not under the prefix, and 403 when
\* the guard does not grant the destination; in both cases the filesystem is
\* left as it was.  The answer is 204, and the filesystem changes, only when
\* the Destination resolves and the guard grants it.
C11_Destination ==
    AtCopyMove =>
        /\ DestBad => res.status = 400 /\ fs = fs0
        /\ (~DestBad /\ req.dest.guard # "Granted") => res.status = 403 /\ fs = fs0
        /\ (res.status = 204 \/ fs # fs0) => DestValid

\* A file was to be copied to a destination that the guard refuses.
C11_Witness ==
    /\ AtCopyMove
    /\ TargetIsFile
    /\ ~DestBad
    /\ req.dest.guard = "Denied"
    /\ res.status = 403
    /\ fs = fs0

\* The PROPFIND reached handle_propfind_dir.
AtPropfindDir == AtMethod /\ req.method = "PROPFIND" /\ TargetIsDir

\* C12: PROPFIND on a directory with a Depth header other than 0 or 1 is
\* answered 400 without a multistatus body, and with Depth 0, 1 or no Depth
\* header it is not answered 400.
C12_DepthZeroOrOne ==
    AtPropfindDir =>
        IF req.depth \in {"absent", "0", "1"} THEN res.status # 400
        ELSE res.status = 400 /\ res.body # "multistatus"

\* The entry of a directory is a symlink that resolves to a place outside
\* the root while symlinks are not allowed.
EscapingEntry(e) ==
    /\ ~cfg.allow_symlink
    /\ SymlinkMetadata(fs0, e).ok
    /\ SymlinkMetadata(fs0, e).v.kind = "link"
    /\ Canonicalize(fs0, e).ok
    /\ ~starts_with(Canonicalize(fs0, e).v, cfg.path)

\* The entries of the target directory, as paths below the target.
TargetEntries == {Append(ReqTarget, Last(q)) : q \in Children(fs0, Stat(fs0, ReqTarget).path)}

\* The entries a listing shows: not hidden, not an escaping symlink.
VisibleEntries ==
    {e \in TargetEntries :
        ~is_hidden(cfg, Last(e), IsDirPath(fs0, e)) /\ ~EscapingEntry(e)}

\* The name a multistatus gives the entry e: its path below the root.
DavName(e) == SubSeq(e, Len(cfg.path) + 1, Len(e))

\* The Depth header asks for the directory alone.
DepthZero == req.depth = "0"

\* C13 as stated: PROPFIND on a directory under the root with Depth 0, 1 or
\* absent is answered 207 with one response for the directory and, unless
\* Depth is 0, one for every visible entry, and none else; the href of every
\* directory ends with "/".
C13_MultistatusAsStated ==
    (AtPropfindDir /\ req.depth \in {"absent", "0", "1"} /\ UnderRoot) =>
        /\ res.status = 207
        /\ {it.name : it \in res.items} =
             {DavName(ReqTarget)} \cup
             (IF DepthZero THEN {} ELSE {DavName(e) : e \in VisibleEntries})
        /\ Cardinality(res.items) = Cardinality({it.name : it \in res.items})
        /\ \A it \in res.items :
              item_is_dir(it) => Last(to_dav_href(cfg.uri_prefix, it)) = "/"

\* C13, amended: the entries that have a response are the visible ones
\* whose target can be examined: a symlink whose target is missing has none.
\* When the target is not under the root by its components, the answer is
\* 500.
C13_Multistatus ==
    (AtPropfindDir /\ req.depth \in {"absent", "0", "1"}) =>
        IF ~UnderRoot THEN res.status = 500
        ELSE /\ res.status = 207
             /\ {it.name : it \in res.items} =
                  {DavName(ReqTarget)} \cup
                  (IF DepthZero THEN {}
                   ELSE {DavName(e) : e \in {v \in VisibleEntries : Metadata(fs0, v).ok}})
             /\ Cardinality(res.items) = Cardinality({it.name : it \in res.items})
             /\ \A it \in res.items :
                   item_is_dir(it) => Last(to_dav_href(cfg.uri_prefix, it)) = "/"

\* The root was listed with Depth 1 while it holds a hidden entry, an
\* escaping symlink, a symlink without a target and a directory with an
\* entry of its own.
C13_Witness ==
    /\ AtPropfindDir
    /\ req.depth = "1"
    /\ ReqTarget = RootPath
    /\ res.status = 207
    /\ \E e \in TargetEntries : is_hidden(cfg, Last(e), IsDirPath(fs0, e))
    /\ \E e \in TargetEntries : EscapingEntry(e)
    /\ \E e \in VisibleEntries : ~Metadata(fs0, e).ok
    /\ \E e \in VisibleEntries : IsDirPath(fs0, e) /\ Beneath(fs0, Stat(fs0, e).path) # {}
    /\ Cardinality(res.items) > 2

\* The view of a caller who may read everything and write nothing.
ReadOnlyView == [perm |-> "ReadOnly", child_paths |-> {}]

\* The guard gave the caller the IndexOnly view of the target directory.
IndexOnlyDir == AtMethod /\ TargetIsDir /\ indexonly(req.access)

\* The request is a GET from the caller auth for a file that lies in a
\* directory of which auth has the IndexOnly view, and that auth was not
\* granted.
FileOfIndexOnlyDir(auth) ==
    /\ AtGuard
    /\ req.method = "GET"
    /\ IsFilePath(fs0, ReqTarget)
    /\ Len(Components(resolve_path(cfg, req.path).v)) > 0
    /\ indexonly(guard(auth, JoinName(Front(Components(resolve_path(cfg, req.path).v))),
                       "GET").access)
    /\ guard(auth, resolve_path(cfg, req.path).v, "GET").outcome = "Denied"
    /\ req.guard = "Denied"

\* C14: a GET by an IndexOnly caller on a directory lists the enumerated
\* child_paths that exist and are visible, and nothing else; a GET of a file
\* of that directory that the caller was not granted is answered 403 or 404;
\* a PROPFIND by the IndexOnly caller on the directory is answered as the
\* same PROPFIND by a ReadOnly caller is.
C14_IndexOnly ==
    /\ (IndexOnlyDir /\ req.method \in {"GET", "HEAD"} /\ UnderRoot) =>
          /\ res.status = 200
          /\ Lists
          /\ {it.name : it \in res.items} =
               {<<n>> : n \in {m \in req.access.child_paths :
                                  Append(ReqTarget, m) \in VisibleEntries
                                  /\ Metadata(fs0, Append(ReqTarget, m)).ok}}
    /\ \A auth \in DavAuths : FileOfIndexOnlyDir(auth) => res.status \in {403, 404}
    /\ (IndexOnlyDir /\ req.method = "PROPFIND") =>
          res = call(cfg, fs0, [req EXCEPT !.access = ReadOnlyView]).res

\* An IndexOnly caller listed the root, which holds entries that the caller
\* was not granted, and saw the granted one alone.
C14_Witness ==
    /\ IndexOnlyDir
    /\ req.method = "GET"
    /\ ReqTarget = RootPath
    /\ res.status = 200
    /\ Cardinality(res.items) = 1
    /\ Cardinality(VisibleEntries) > 1

\* The request answered last was a LOCK or an UNLOCK.
LockAnswered == req.method \in {"LOCK", "UNLOCK"}

\* What a LOCK or UNLOCK is answered and leaves.
LockAnswer ==
    (pc = "done" /\ LockAnswered) =>
        /\ fs = fs0
        /\ (AtMethod /\ req.method = "LOCK" /\ TargetIsFile) =>
              res.status = 200 /\ "lock-token" \in res.headers
        /\ (AtMethod /\ req.method = "UNLOCK") =>
              res.status = IF TargetMiss THEN 404 ELSE 200

\* The request that follows a LOCK or an UNLOCK is answered, and leaves the
\* filesystem, as if it had been served in place of the LOCK or UNLOCK.
AfterLock ==
    (pc = "idle" /\ LockAnswered /\ pc' = "done") =>
        /\ res' = call(cfg, fs0, req').res
        /\ fs' = call(cfg, fs0, req').fs

\* C15: LOCK and UNLOCK leave the filesystem as it was, and the request that
\* follows them is answered as it would have been without them; LOCK on a
\* file is answered 200 with a Lock-Token header, also when it follows a LOCK
\* of the same file; UNLOCK is answered 200 on an existing path and 404 on a
\* missing one, whether or not a LOCK came before.
C15_NoLockState == [](LockAnswer) /\ [][AfterLock]_vars

\* A file was locked by the second request.
C15_Witness ==
    /\ AtMethod
    /\ nreq = 2
    /\ req.method = "LOCK"
    /\ TargetIsFile
    /\ res.status = 200
    /\ "lock-token" \in res.headers
    /\ fs = fs0

\* The OPTIONS answer: 200 with the Allow and DAV headers.
OptionsAnswer == res.status = 200 /\ {"Allow", "DAV"} \subseteq res.headers

\* C16 as stated: OPTIONS on a target that passed path resolution and the
\* guard is answered 200 with the Allow and DAV headers and changes nothing.
C16_OptionsAsStated ==
    (AtGuard /\ req.guard = "Granted" /\ req.method = "OPTIONS") =>
        OptionsAnswer /\ fs = fs0

\* C16, amended: so is OPTIONS answered outside single-file mode on a target
\* that also passed the symlink policy, whether it is missing, a directory
\* or a file.
C16_Options ==
    (AtMethod /\ req.method = "OPTIONS") => OptionsAnswer /\ fs = fs0

\* OPTIONS was answered for a missing target after an earlier request.
C16_Witness ==
    /\ AtMethod
    /\ req.method = "OPTIONS"
    /\ TargetMiss
    /\ nreq = 2
    /\ OptionsAnswer
    /\ fs = fs0

\* The three URIs of the served file: the prefix, the prefix without its
\* trailing slash, the prefix followed by the encoded file name.
CanonicalUris ==
    { cfg.uri_prefix,
      SubSeq(cfg.uri_prefix, 1, Len(cfg.uri_prefix) - 1),
      cfg.uri_prefix \o encode_uri(Last(cfg.path)) }

\* The request reached the single-file step of handle.
AtSingleFile ==
    /\ AtGuard
    /\ req.guard = "Granted"
    /\ req.method # "WRITEABLE"
    /\ cfg.path_is_file

\* C17: in single-file mode a request that reaches the single-file step is
\* answered with the served file when its URI is one of the three canonical
\* URIs and 404 otherwise, and no request of any method changes the
\* filesystem.
C17_SingleFile ==
    /\ (cfg.path_is_file /\ pc = "done") => fs = fs0
    /\ AtSingleFile =>
          IF req.path \in CanonicalUris THEN SendsFile(cfg.path)
          ELSE NotFound

\* A PUT to the file of the single-file server was answered with the file.
C17_Witness ==
    /\ AtSingleFile
    /\ req.method = "PUT"
    /\ req.path = cfg.uri_prefix \o Last(cfg.path)
    /\ SendsFile(cfg.path)
    /\ fs = fs0

\* C18: a request that the GET asset fast path did not serve leaves exactly
\* one access-log record, whatever its method, path and outcome, and a
\* request that the asset fast path served leaves none.
C18_OneLogRecord ==
    pc = "done" => Len(log) = IF AssetFastPath(cfg, req) THEN 0 ELSE 1

\* The GET reached handle_send_file for a file that has a name.
AtSendFile ==
    /\ AtMethod
    /\ req.method = "GET"
    /\ TargetIsFile
    /\ HasName
    /\ "edit" \notin req.query

\* The node of the target when the request was served.
TargetNode == Metadata(fs0, ReqTarget).v

\* The If-None-Match header carries the entity tag that a GET of the target
\* returned while the filesystem was SendFs.
Revalidates ==
    /\ AtSendFile
    /\ IsFilePath(SendFs, ReqTarget)
    /\ req.if_none_match =
          [kind |-> "tags",
           tags |-> {extract_cache_headers(Metadata(SendFs, ReqTarget).v).etag}]
    /\ req.range = NoHeader

NotModified == res.status = 304 /\ res.body = "" /\ res.sent = {}

FullResponse == res.status = 200 /\ res.body = "file" /\ res.sent = 0..(TargetNode.size - 1)

\* The answer to the request is what it is without If-Modified-Since.
DateIgnored ==
    res = call(cfg, fs0, [req EXCEPT !.if_modified_since = NoHeader]).res

\* C19 as stated: a GET that carries in If-None-Match the entity tag an
\* earlier GET returned is answered 304 with an empty body while mtime and
\* size of the file are what they were, and with the full file once mtime or
\* size has changed; If-Modified-Since plays no part when If-None-Match is
\* present.
C19_RevalidationAsStated ==
    Revalidates =>
        /\ IF TargetNode.mtime = Metadata(SendFs, ReqTarget).v.mtime
              /\ TargetNode.size = Metadata(SendFs, ReqTarget).v.size
           THEN NotModified ELSE FullResponse
        /\ DateIgnored

\* C19, amended: the answer is 304 while the mtime in whole milliseconds and
\* the size are what they were, and the full file once either has changed.
C19_Revalidation ==
    Revalidates =>
        /\ IF to_timestamp(TargetNode.mtime) =
                to_timestamp(Metadata(SendFs, ReqTarget).v.mtime)
              /\ TargetNode.size = Metadata(SendFs, ReqTarget).v.size
           THEN NotModified ELSE FullResponse
        /\ DateIgnored

\* After a PUT that changed the file, a GET with the entity tag of the old
\* file and an If-Modified-Since that the new file does not pass was
\* answered with the full file.
C19_Witness ==
    /\ Revalidates
    /\ nreq = 2
    /\ TargetNode # Metadata(SendFs, ReqTarget).v
    /\ req.if_modified_since.kind = "date"
    /\ ~is_modified(req.if_modified_since, HttpDate(TargetNode.mtime))
    /\ FullResponse

\* The Range header is bytes=s-e or bytes=s-, and nothing keeps
\* handle_send_file from honouring it.
RangeAsked ==
    /\ AtSendFile
    /\ req.range.kind = "range"
    /\ req.range.units = "bytes"
    /\ Len(req.range.spec) \in {2, 3}
    /\ req.range.spec[1] \in DOMAIN U64Text
    /\ req.range.spec[2] = "-"
    /\ Len(req.range.spec) = 3 => req.range.spec[3] \in DOMAIN U64Text
    /\ req.if_range = NoHeader
    /\ req.if_none_match = NoHeader
    /\ req.if_modified_since = NoHeader

RangeStart == U64Text[req.range.spec[1]]

RangeHasEnd == Len(req.range.spec) = 3

RangeEnd == U64Text[req.range.spec[3]]

\* The last byte of the range asked for, within the file.
RangeLast ==
    IF RangeHasEnd /\ RangeEnd < TargetNode.size THEN RangeEnd ELSE TargetNode.size - 1

\* C20: a GET with Range bytes=s-e or bytes=s- where s is within the file
\* and s <= e is answered 206 with Content-Range bytes s-l/size,
\* Content-Length l-s+1 and the bytes s..l of the file, where l is e, or
\* size-1 when e is absent or not less than size.
C20_RangeRoundTrip ==
    (/\ RangeAsked
     /\ RangeStart < TargetNode.size
     /\ RangeHasEnd => RangeStart <= RangeEnd) =>
        /\ res.status = 206
        /\ res.content_range = [kind |-> "bytes", start |-> RangeStart,
                                 end |-> RangeLast, size |-> TargetNode.size]
        /\ res.len = RangeLast - RangeStart + 1
        /\ res.sent = RangeStart..RangeLast
        /\ res.src = Canonicalize(fs0, ReqTarget)

\* A range that starts within a file of 3 bytes and ends past it was
\* answered with the bytes up to the end of the file.
C20_Witness ==
    /\ RangeAsked
    /\ TargetNode.size = 3
    /\ RangeStart = 2
    /\ RangeHasEnd
    /\ RangeEnd = 5
    /\ res.status = 206
    /\ res.sent = {2}

Unsatisfiable ==
    /\ res.status = 416
    /\ res.content_range = [kind |-> "unsatisfied", size |-> TargetNode.size]

\* C21: a parsed range that starts at or past the end of the file, and any
\* parsed range on an empty file, is answered 416 with Content-Range
\* bytes */size; a 206 has start <= end <= size-1 and a Content-Length of
\* end-start+1, and the request is answered.
C21_RangeOutside ==
    RangeAsked =>
        /\ res.action # "panic"
        /\ RangeStart >= TargetNode.size => Unsatisfiable
        /\ res.status = 206 =>
              /\ res.content_range.start <= res.content_range.end
              /\ res.content_range.end <= TargetNode.size - 1
              /\ res.len = res.content_range.end - res.content_range.start + 1

\* The Range header lists several byte ranges, the first being s-e.
SeveralRanges ==
    /\ AtSendFile
    /\ req.range.kind = "range"
    /\ req.range.units = "bytes"
    /\ Len(req.range.spec) > 4
    /\ req.range.spec[1] \in DOMAIN U64Text
    /\ req.range.spec[2] = "-"
    /\ req.range.spec[3] \in DOMAIN U64Text
    /\ req.range.spec[4] = ","
    /\ req.if_range = NoHeader
    /\ req.if_none_match = NoHeader
    /\ req.if_modified_since = NoHeader

\* C22: a Range header that lists several byte ranges is answered as its
\* first range is: 206 with that range when it lies within the file; no
\* multipart body is produced.
C22_FirstRangeOnly ==
    (/\ SeveralRanges
     /\ RangeStart <= RangeEnd
     /\ RangeEnd < TargetNode.size) =>
        /\ res.status = 206
        /\ res.content_range = [kind |-> "bytes", start |-> RangeStart,
                                 end |-> RangeEnd, size |-> TargetNode.size]
        /\ res.sent = RangeStart..RangeEnd

\* The name of the entry e starts with a dot.
DotName(e) == Head(Last(e)) = "."

\* A hidden glob matches the name of e: the name itself, or the name
\* followed by "/" when e is a directory or a symlink to one.
GlobMatches(e) ==
    \/ Last(e) \in cfg.hidden
    \/ IsDirPath(fs0, e) /\ Append(Last(e), "/") \in cfg.hidden

\* The Hidden Filter drops the entry e from a listing.
FilterDrops(e) == (cfg.posix_hidden /\ DotName(e)) \/ GlobMatches(e)

\* A GET listed the target directory for a caller who may read it.
AtListing ==
    /\ AtMethod
    /\ req.method = "GET"
    /\ TargetIsDir
    /\ req.query = {}
    /\ req.access = FullAccess
    /\ res.action = "index"

\* The entries of the target that the answer holds.
ListedEntries == {ReqTarget \o it.name : it \in res.items}

\* C23 as stated: a listing holds the children that the Hidden Filter does
\* not drop, and no other: with posix_hidden those whose name starts with a
\* dot are dropped, and those that a hidden glob matches, a pattern ending
\* in "/" matching directories only; with neither, all children are listed.
C23_HiddenListingAsStated ==
    AtListing => ListedEntries = {e \in TargetEntries : ~FilterDrops(e)}

\* C23, amended: the children in question are those that a listing can
\* show, whose target exists and, when symlinks are not allowed, is under
\* the root.
C23_HiddenListing ==
    AtListing =>
        ListedEntries = {e \in TargetEntries :
                            Metadata(fs0, e).ok /\ ~EscapingEntry(e) /\ ~FilterDrops(e)}

\* A listing of the root under posix_hidden and the glob k/ kept g, t and s
\* and dropped .g, .k, .s and the symlink k to a directory.
C23_Witness ==
    /\ AtListing
    /\ cfg.posix_hidden
    /\ cfg.hidden = { <<"k", "/">> }
    /\ cfg.allow_symlink
    /\ ReqTarget = RootPath
    /\ {Last(e) : e \in ListedEntries} = { <<"g">>, <<"t">>, <<"s">>, <<"l">> }

\* A GET searched the target directory for the name q.
AtSearch ==
    /\ AtMethod
    /\ req.method = "GET"
    /\ TargetIsDir
    /\ req.query = {"q"}
    /\ Len(req.q) = 1
    /\ res.action = "search"

\* The entries that the answer to a search holds.
SearchEntries == {ReqTarget \o it.name : it \in res.items}

\* The entry e lies beneath a directory of the root whose name starts with
\* a dot.
BeneathDotDir(e) ==
    \E i \in (Len(cfg.path) + 1)..(Len(e) - 1) :
        /\ DotName(SubSeq(e, 1, i))
        /\ NodeAt(fs0, LStat(fs0, SubSeq(e, 1, i)).path).kind = "dir"

\* The target and the entries below it, through directories.
BelowTarget ==
    {ReqTarget \o SubSeq(q, Len(Stat(fs0, ReqTarget).path) + 1, Len(q)) :
        q \in {k \in DOMAIN fs0 : IsPrefix(Stat(fs0, ReqTarget).path, k)}}

\* The name of e holds the word searched for.
NameMatches(e) == \E i \in 1..Len(Last(e)) : Last(e)[i] = req.q[1]

ExcludedFromListing ==
    {e \in TargetEntries :
        e \notin {ReqTarget \o it.name :
                     it \in list_dir(cfg, fs0, ReqTarget, ReqTarget, FullAccess).items}}

\* A GET archived the target directory.
AtZip ==
    /\ AtMethod
    /\ req.method = "GET"
    /\ TargetIsDir
    /\ req.query = {"zip"}
    /\ res.action = "zip"

\* The files that the archive holds.
ZipEntries == {ReqTarget \o n : n \in res.items}

\* A PROPFIND listed the target directory.
AtPropfindList ==
    /\ AtPropfindDir
    /\ req.depth = "1"
    /\ res.status = 207

SymmetricSearch == AtSearch => SearchEntries \cap ExcludedFromListing = {}

SymmetricZip == AtZip => ZipEntries \cap ExcludedFromListing = {}

SymmetricPropfind ==
    AtPropfindList =>
        {cfg.path \o it.name : it \in res.items} \cap ExcludedFromListing = {}

\* C25: an entry that the listing of a directory leaves out is in no answer
\* to a search of the directory, in no archive of it and in no answer to a
\* PROPFIND of it, whatever the kind of the entry and the hidden
\* configuration.
C25_HiddenSymmetry == SymmetricSearch /\ SymmetricZip /\ SymmetricPropfind

\* The request names a file or directory below the root that the Hidden
\* Filter drops from the listing of its parent.
TargetHidden ==
    /\ AtMethod
    /\ ~TargetMiss
    /\ ReqTarget # cfg.path
    /\ HasName
    /\ FilterDrops(ReqTarget)

\* C26: GET, HEAD and PROPFIND of a target that the Hidden Filter hides are
\* answered 404 Not Found, as for a missing target, with neither content
\* nor properties.
C26_HiddenTarget ==
    (TargetHidden /\ req.method \in {"GET", "HEAD", "PROPFIND"}) =>
        /\ res.status = 404
        /\ res.items = {}
        /\ res.sent = {}

\* The leaves of the target that the caller may read.
PermittedLeaves ==
    IF req.access.perm = "IndexOnly"
    THEN {Append(ReqTarget, n) : n \in req.access.child_paths}
    ELSE {ReqTarget}

\* The leaf l and the entries below it, through directories.
Below(l) ==
    IF Stat(fs0, l).err # "ok" THEN {}
    ELSE {l \o SubSeq(q, Len(Stat(fs0, l).path) + 1, Len(q)) :
             q \in {k \in DOMAIN fs0 : IsPrefix(Stat(fs0, l).path, k)}}

IsRegularFile(e) == NodeAt(fs0, LStat(fs0, e).path).kind = "file"

IsDirectory(e) == NodeAt(fs0, LStat(fs0, e).path).kind = "dir"

\* The entry e below the leaf l lies beneath a hidden directory of the walk
\* of l.
BeneathHiddenDir(l, e) ==
    \E i \in Len(l)..(Len(e) - 1) :
        IsDirectory(SubSeq(e, 1, i)) /\ FilterDrops(SubSeq(e, 1, i))

\* C27: the archive of a directory D, when the walk ran to its end, holds
\* the regular files under the caller's permitted leaves of D that are
\* neither hidden nor beneath a hidden directory, each under its path
\* relative to D, and nothing else: no directory, no symlink.
C27_ZipContents ==
    (AtZip /\ req.stop = NoStop) =>
        /\ res.finalized
        /\ res.base = ReqTarget
        /\ res.items =
              {SubSeq(e, Len(ReqTarget) + 1, Len(e)) :
                  e \in UNION {{x \in Below(l) :
                                   /\ IsRegularFile(x)
                                   /\ ~FilterDrops(x)
                                   /\ ~BeneathHiddenDir(l, x)} : l \in PermittedLeaves}}

\* Under the glob t/, the archive of the root for a caller who may read /t,
\* /.g and /g held g and .g/g, and not t/g.
C27_Witness ==
    /\ AtZip
    /\ req.stop = NoStop
    /\ req.access.perm = "IndexOnly"
    /\ ~cfg.posix_hidden
    /\ cfg.hidden = { <<"t", "/">> }
    /\ res.items = { << <<"g">> >>, << <<".", "g">>, <<"g">> >> }

\* The entries that the walks of the request yield when the shutdown flag
\* stays true.
WalkEntries ==
    walk_leaves(cfg, fs0, SeqOf(leaf_paths(req.access, ReqTarget)), req.rev)

\* The shutdown flag read false before the walks of the request were over.
WalkAborted == aborted(WalkEntries, req.stop)

\* The files of the archive of the target when the walk runs to its end.
WholeArchive ==
    handle_zip_dir(cfg, fs0, [req EXCEPT !.stop = NoStop], ReqTarget, FALSE, DefaultRes).res.items

\* C28: an archive whose walk was aborted by the shutdown flag is not
\* finalized: no body ends with the end-of-archive record over a part of
\* the files.
C28_NoPartialArchive ==
    AtZip =>
        /\ WalkAborted => ~res.finalized
        /\ res.finalized => res.items = WholeArchive

\* A GET asks for a search or an archive of the target directory, and the
\* shutdown flag reads false from some entry of the walk on.
WalkStopped ==
    /\ AtMethod
    /\ req.method = "GET"
    /\ TargetIsDir
    /\ HasName
    /\ req.query \in {{"q"}, {"zip"}}
    /\ req.stop.ok

\* The entries that the walks handled before the flag read false.
HandledEntries ==
    {WalkEntries[i] : i \in {j \in DOMAIN WalkEntries : j <= req.stop.v}}

\* The entries in the answer to a search or in the archive.
WalkOutcome == IF req.query = {"q"} THEN SearchEntries ELSE ZipEntries

\* C29: the walks of search and zip read the shutdown flag before each
\* entry: the result holds no entry that a walk yields once the flag reads
\* false, in the leaf at hand or in a later one, and the request is
\* answered.
C29_StopBetweenEntries ==
    WalkStopped =>
        /\ WalkOutcome \subseteq HandledEntries
        /\ res.status = 200
        /\ res.action = IF req.query = {"q"} THEN "search" ELSE "zip"

\* The archive of the leaves t, .g and g was cut short after some of its
\* files.
C29_Witness ==
    /\ WalkStopped
    /\ req.query = {"zip"}
    /\ req.access.perm = "IndexOnly"
    /\ WalkAborted
    /\ res.items # {}
    /\ res.items # WholeArchive
    /\ res.status = 200

\* The handler of a GET or DELETE runs for a file that the probe found, and
\* that would have been served, but that another request has removed since.
RaceLost ==
    /\ pc = "checked"
    /\ pc' = "done"
    /\ req.method \in {"GET", "DELETE"}
    /\ IsFilePath(fs0, ReqTarget)
    /\ cfg.allow_symlink \/ is_root_contained(cfg, fs0, ReqTarget)
    /\ ~Metadata(fs, ReqTarget).ok

\* The request ends in an empty 500 and the task of the request in no
\* panic; the filesystem is as the other request left it.
Answers500 == res'.status = 500 /\ res'.body = "" /\ res'.action # "panic" /\ fs' = fs

\* C30 as stated: a GET or a DELETE of a file that the probe of the
\* dispatcher found and that another request removed before the handler
\* opened or unlinked it ends in 500, neither 404 nor a 200.
C30_RaceAsStated == [][RaceLost => Answers500]_vars

\* C30, amended: the request ends in 500 when the file was still there at
\* the check of the symlink policy, or when symlinks are allowed and there
\* is no check; when the file went before the check the request ends in 404.
C30_Race ==
    [][RaceLost =>
          IF cfg.allow_symlink \/ Metadata(fs1, ReqTarget).ok THEN Answers500
          ELSE res'.status = 404 /\ fs' = fs]_vars

\* A DELETE of a file that another DELETE removed after the check of the
\* symlink policy ended in 500, and was the second request at least.
C30_Witness ==
    /\ pc = "done"
    /\ req.method = "DELETE"
    /\ ~cfg.allow_symlink
    /\ IsFilePath(fs0, ReqTarget)
    /\ Metadata(fs1, ReqTarget).ok
    /\ ~Metadata(fs, ReqTarget).ok
    /\ res.status = 500
    /\ nreq = 2


-----------------------------------------------------------------------------
(* HEAD                                                                    *)

\* A HEAD was answered by one of the handlers that take head_only: file
\* send, index, search, edit page or zip.
AtHead ==
    /\ pc = "done"
    /\ req.method = "HEAD"
    /\ res.action \in {"send_file", "index", "search", "edit", "zip"}

\* What the same request gets as a GET.
GetAnswer == call(cfg, fs0, [req EXCEPT !.method = "GET"]).res

\* No producer task was started for the archive.
NoProducer == res.items = {} /\ ~res.finalized /\ res.sent = {}

\* C31: a HEAD gets the status and the headers of the corresponding GET
\* and an empty body, from file send (full and ranged), index in html, json
\* and simple modes, edit page and zip, for which no producer task is
\* started.
C31_HeadMatchesGet ==
    AtHead =>
        /\ res.status = GetAnswer.status
        /\ res.headers = GetAnswer.headers
        /\ res.body = ""
        /\ res.action = "zip" => NoProducer


-----------------------------------------------------------------------------
(* Path prefix                                                             *)

\* The request was served under a path prefix other than "/".
AtPrefix ==
    /\ pc = "done"
    /\ cfg.path_prefix # <<"/">>
    /\ ~AssetFastPath(cfg, req)
    /\ decode_uri(TrimMatches(req.path)).ok

\* The decoded request path, without its leading and trailing slashes.
DecodedPath == decode_uri(TrimMatches(req.path)).v

\* The request path is the prefix itself or lies under it at a path-segment
\* boundary.
UnderPrefix ==
    \/ DecodedPath = TrimStart(cfg.path_prefix)
    \/ IsPrefix(Append(TrimStart(cfg.path_prefix), "/"), DecodedPath)

\* C32: under a path prefix other than "/", resolve_path returns a relative
\* path only for the request paths that are the prefix or lie under it at a
\* segment boundary; a path that merely starts with the text of the prefix
\* resolves to None and is answered 403.
C32_PrefixBoundary ==
    AtPrefix =>
        /\ resolve_path(cfg, req.path).ok <=> UnderPrefix
        /\ ~UnderPrefix => res.status = 403 /\ fs = fs0


-----------------------------------------------------------------------------
(* Writes and the root                                                     *)

\* The entries of filesystem f whose canonical location is outside the root.
OutsideRoot(f) == {p \in DOMAIN f : ~starts_with(p, cfg.path)}

\* The request left every entry outside the root as it was, and created none.
OutsideUntouched ==
    /\ OutsideRoot(fs) = OutsideRoot(fs0)
    /\ \A p \in OutsideRoot(fs0) : fs[p] = fs0[p]

\* C33: with allow_symlink off, no PUT, MKCOL, COPY or MOVE creates or
\* modifies an entry whose canonical location is outside root_path, be it
\* through a missing target beneath a symlinked directory that points
\* outside the root or through the destination of COPY or MOVE.
C33_WritesStayInside ==
    (/\ pc = "done"
     /\ ~cfg.allow_symlink
     /\ req.method \in {"PUT", "MKCOL", "COPY", "MOVE"})
        => OutsideUntouched


-----------------------------------------------------------------------------
(* The read-only server                                                    *)

\* Neither upload nor delete is allowed.
ReadOnlyServer == ~cfg.allow_upload /\ ~cfg.allow_delete

\* C34: with allow_upload and allow_delete off the server is read-only:
\* after any sequence of requests of any methods the filesystem is the one
\* the server started on.
C34_ReadOnly == ReadOnlyServer => fs = InitFs /\ fs0 = InitFs

\* A granted PUT, DELETE, MKCOL, COPY or MOVE on a path that resolves was
\* answered by the read-only server, after an earlier request.
C34_Witness ==
    /\ ReadOnlyServer
    /\ AtProbe
    /\ req.method \in {"PUT", "DELETE", "MKCOL", "COPY", "MOVE"}
    /\ TargetMiss
    /\ nreq = MaxReqs
    /\ res.status = 403


-----------------------------------------------------------------------------
(* The server that takes uploads and refuses deletions                     *)

\* The request removed no entry and left every non-empty file as it was.
NothingLost ==
    \A p \in DOMAIN fs0 :
        /\ p \in DOMAIN fs
        /\ (fs0[p].kind = "file" /\ fs0[p].size > 0) => fs[p] = fs0[p]

\* C35: with allow_delete off and upload allowed, no request removes an
\* existing entry or replaces the content of an existing non-empty file:
\* PUT is gated on size > 0, DELETE and MOVE are refused, and COPY onto an
\* existing non-empty file does not overwrite it.
C35_NothingLost ==
    (pc = "done" /\ cfg.allow_upload /\ ~cfg.allow_delete) => NothingLost


-----------------------------------------------------------------------------
(* The requested directory in search and zip                               *)

\* The proper descendants of the target, through directories.
ProperDescendants == BelowTarget \ {ReqTarget}

\* The entry e lies beneath a hidden directory that is itself a proper
\* descendant of the target.
BeneathHiddenDescendant(e) ==
    \E i \in (Len(ReqTarget) + 1)..(Len(e) - 1) :
        IsDirectory(SubSeq(e, 1, i)) /\ FilterDrops(SubSeq(e, 1, i))

\* The walk ran to its end for a caller who may read the whole directory.
WholeWalk == req.stop = NoStop /\ req.access = FullAccess

\* A search does not return the directory searched.
SearchOmitsTarget == AtSearch => ReqTarget \notin SearchEntries

\* A search returns the matching descendants that are neither hidden nor
\* beneath a hidden descendant, whatever the name of the directory searched.
SearchBelowTarget ==
    (AtSearch /\ WholeWalk) =>
        \A e \in ProperDescendants :
            (/\ NameMatches(e)
             /\ ~FilterDrops(e)
             /\ ~BeneathHiddenDescendant(e)
             /\ ~EscapingEntry(e)) => e \in SearchEntries

\* An archive holds the regular files that are neither hidden nor beneath a
\* hidden descendant, whatever the name of the directory zipped.
ZipBelowTarget ==
    (AtZip /\ WholeWalk) =>
        \A e \in ProperDescendants :
            (/\ IsRegularFile(e)
             /\ ~FilterDrops(e)
             /\ ~BeneathHiddenDescendant(e)) => e \in ZipEntries

\* C36: search and zip apply the name match and the hidden filter to the
\* proper descendants of the requested directory only: the directory itself
\* is never a search result, and its own name being hidden empties neither
\* the search result nor the archive.
C36_ProperDescendantsOnly ==
    SearchOmitsTarget /\ SearchBelowTarget /\ ZipBelowTarget


-----------------------------------------------------------------------------
(* The overwrite gate of PUT under concurrency                             *)

\* The target is a non-empty file in filesystem f.
NonEmptyAt(f) == IsFilePath(f, ReqTarget) /\ Metadata(f, ReqTarget).v.size > 0

\* The handler of a PUT runs, deletions being refused.
PutActs ==
    /\ pc = "checked"
    /\ pc' = "done"
    /\ req.method = "PUT"
    /\ ~cfg.allow_delete

\* The target is left as the handler found it.
TargetKept == Metadata(fs', ReqTarget) = Metadata(fs, ReqTarget)

\* The target is now what this request uploaded: its body, or nothing when
\* the body failed to arrive.
TargetReplaced ==
    /\ res'.status = IF req.body.ok THEN 201 ELSE 500
    /\ Metadata(fs', ReqTarget).v =
          FileNodeAt(IF req.body.ok THEN req.body.size ELSE 0, req.now)

\* C37 as stated: when PUT requests to one path interleave, none truncates
\* or replaces a file that is non-empty at the moment of its write.
C37_AtomicGateAsStated == [][(PutActs /\ NonEmptyAt(fs)) => TargetKept]_vars

\* C37, amended: the gate is that of the stat probe.  A PUT whose probe
\* found a non-empty file is refused with 403 and writes nothing; a PUT
\* whose probe found the file missing or empty creates or truncates it and
\* writes its body, also when another PUT has made the file non-empty
\* since the probe.
C37_ProbeGate ==
    [][PutActs =>
          IF NonEmptyAt(fs0) THEN res'.status = 403 /\ fs' = fs
          ELSE NonEmptyAt(fs) => TargetReplaced]_vars

\* A PUT of an empty body whose probe found the file missing or empty was
\* answered 201 after another PUT had written a byte to the file: the file
\* is empty again.
C37_Witness ==
    /\ pc = "done"
    /\ req.method = "PUT"
    /\ ~cfg.allow_delete
    /\ ~NonEmptyAt(fs0)
    /\ NonEmptyAt(fs1)
    /\ req.body = [size |-> 0, ok |-> TRUE]
    /\ res.status = 201
    /\ Metadata(fs, ReqTarget).v = FileNodeAt(0, 2)

=============================================================================
